---------------------------- MODULE Spec2Model ----------------------------
(***************************************************************************)
(* A model of aioexabgp: the announcer's advertise loop and its writes to  *)
(* the speaker, the ping health check, the learner, the FIB consumer and   *)
(* the mirror of BGP learnt routes.                                        *)
(*                                                                         *)
(* Each subsystem has its own specification over the shared variables:     *)
(*   SpecMirror    direct calls of _update_learnt_routes                   *)
(*   SpecConsumer  prefix_consumer / fib_operation_runner on a queue       *)
(*   SpecAdvertise Announcer.advertise, add_routes, nonblock_print         *)
(*   SpecPing      PingChecker.check over run_cmd                          *)
(*   SpecLearn     Announcer.learn over ExaBGPParser.parse                 *)
(*   SpecParse     direct calls of ExaBGPParser.parse                      *)
(*   SpecFilter    direct calls of Announcer.remove_internal_networks      *)
(*   SpecFib       direct calls of LinuxFib over a kernel route table      *)
(*   SpecInstall   fib_operation_runner over LinuxFib and the mirror       *)
(*   SpecExit      Announcer.coordinator when its gather ends              *)
(*   SpecQueue     prefix_consumer behind a queue of several batches       *)
(*   SpecQueueFair the same under fair scheduling of the consumer          *)
(*   SpecApply     _update_learnt_routes on batches of several intents     *)
(***************************************************************************)
EXTENDS Integers, Sequences, FiniteSets, TLC

VARIABLES
    \* fibs.py: the module-global mirror and the last _update_learnt_routes call
    BGP_LEARNT_PREFIXES,   \* prefix -> set of next-hops
    ulr_call,              \* the last call: its batch, the mirror before, its counts
    net_routes,            \* (prefix, next-hop) pairs added and not removed since
    plain_history          \* every intent so far was an Add/Remove with a next-hop

mirrorVars == <<BGP_LEARNT_PREFIXES, ulr_call, net_routes, plain_history>>

VARIABLES
    \* fibs.py: prefix_consumer and fib_operation_runner
    learn_queue,       \* Announcer.learn_queue: the batches put and not yet got
    fib_names,         \* config["learn"]["fibs"]
    dry_run,           \* Announcer.dry_run
    cons_pc,           \* where prefix_consumer is
    cons_ops,          \* fib_operations: the batch fib_operation_runner works on
    cons_idx,          \* the index in cons_ops of the next intent
    cons_results,      \* what became of each intent of the batch so far
    cons_before        \* the mirror when the batch was taken from the queue

consVars == <<learn_queue, fib_names, dry_run, cons_pc, cons_ops, cons_idx,
              cons_results, cons_before>>

VARIABLES
    \* healthcheck.py, utils.py: one PingChecker.check()
    system,            \* platform.system()
    ping_self,         \* the PingChecker: target_ip, count, timeout, wait
    ping_pc,           \* where check() is
    ping_cmd,          \* the command do_ping hands to run_cmd
    ping_end,          \* how the subprocess ended
    ping_cp,           \* what run_cmd returned
    ping_result        \* what check() returned

pingVars == <<system, ping_self, ping_pc, ping_cmd, ping_end, ping_cp, ping_result>>

VARIABLES
    \* announcer/__init__.py: Announcer.advertise and the writes to the speaker
    advertise_prefixes,    \* the dict, in its order: <<prefix, number of checkers>>
    adv_pc,                \* where advertise() is
    cycles,                \* advertise cycles begun
    healthcheck_results,   \* what the gather of all check() returned
    advertise_routes,      \* the cycle's advertise list
    withdraw_routes,       \* the cycle's withdraw list
    adv_i,                 \* add_routes / withdraw_routes: index of the prefix
    success,               \* add_routes / withdraw_routes: success
    print_results,         \* what nonblock_print returned, line by line, this cycle
    healthy_prefixes,      \* Announcer.healthy_prefixes
    print_lock,            \* Announcer.print_lock: "free" or its holder
    writes,                \* print() calls running in the executor's threads
    stdout_lines           \* the lines written to stdout, the speaker's stdin

advVars == <<advertise_prefixes, adv_pc, cycles, healthcheck_results,
             advertise_routes, withdraw_routes, adv_i, success, print_results,
             healthy_prefixes, print_lock, writes, stdout_lines>>

VARIABLES
    \* announcer/__init__.py: Announcer.learn
    allow_default,     \* config["learn"].get("allow_default", False)
    learn_pc,          \* where learn() is
    bgp_msg,           \* the last line read from the speaker
    learn_outcome,     \* what learn() did with it
    learn_exc,         \* the exception that ended learn(), "none" if none did
    msgs_read          \* lines read so far

learnVars == <<allow_default, learn_pc, bgp_msg, learn_outcome, learn_exc, msgs_read>>

VARIABLES
    \* direct calls of the two pure functions of the Learner's path
    parse_call,        \* the last ExaBGPParser.parse call: arguments and outcome
    rin_call           \* the last remove_internal_networks call, likewise

callVars == <<parse_call, rin_call>>

VARIABLES
    \* fibs.py: a LinuxFib and the kernel it installs routes in
    fib_config,        \* default_allowed, allow_ll_nexthop, use_sudo
    route_table,       \* the kernel's routes: prefix, next-hop, metric
    fib_call           \* the last LinuxFib call: arguments, commands, outcome

fibVars == <<fib_config, route_table, fib_call>>

VARIABLES
    \* announcer/__init__.py: Announcer.coordinator at its cancellation
    withdraw_on_exit,  \* config["advertise"].get("withdraw_on_exit", False)
    coord_pc,          \* where coordinator() is
    exit_routes,       \* withdraw_all_routes: all_prefixes
    exit_i,            \* withdraw_routes: index of the prefix
    exit_lines,        \* the lines handed to nonblock_print, in order
    coord_exc          \* the exception coordinator() ended with

exitVars == <<withdraw_on_exit, coord_pc, exit_routes, exit_i, exit_lines, coord_exc>>

vars == <<mirrorVars, consVars, pingVars, advVars, learnVars, callVars, fibVars,
          exitVars>>

\* What the actions of one subsystem leave alone.
notMirror == <<consVars, pingVars, advVars, learnVars, callVars, fibVars, exitVars>>
notConsumer == <<pingVars, advVars, learnVars, callVars, fibVars, exitVars>>
notPing == <<mirrorVars, consVars, advVars, learnVars, callVars, fibVars, exitVars>>
notAdvertise == <<mirrorVars, consVars, pingVars, learnVars, callVars, fibVars, exitVars>>
notLearn == <<mirrorVars, pingVars, callVars, fibVars, exitVars>>
notCall == <<mirrorVars, consVars, pingVars, advVars, learnVars, fibVars, exitVars>>
notFib == <<mirrorVars, consVars, pingVars, advVars, learnVars, callVars, exitVars>>
notInstall == <<consVars, pingVars, advVars, learnVars, callVars, exitVars>>

---------------------------------------------------------------------------
(* Values *)

\* ipaddress.ip_network: a network is its IP version and its prefix bits
\* (the address bits the mask keeps, most significant first).
Net(v, b) == [version |-> v, bits |-> b]

DEFAULT_v4_route == Net(4, <<>>)          \* 0.0.0.0/0
DEFAULT_v6_route == Net(6, <<>>)          \* ::/0

\* ipaddress.ip_address: a host address is its IP version and its value.
Addr(v, n) == [version |-> v, val |-> n]

\* Python's None where an address is expected (FibPrefix.next_hop is Optional).
NoneAddr == [version |-> 0, val |-> 0]

\* enum FibOperation
FibOperation == {"NOTHING", "ADD_ROUTE", "REMOVE_ROUTE", "REMOVE_ALL_ROUTES"}

\* NamedTuple FibPrefix
FibPrefix(p, nh, op) == [prefix |-> p, next_hop |-> nh, operation |-> op]

\* bool(x) of an object whose class defines neither __bool__ nor __len__
\* (an IPv4Address, an IPv6Address): true; bool(None): false.
TruthyAddr(a) == a # NoneAddr

---------------------------------------------------------------------------
(* fibs.py: _update_learnt_routes *)

\* The empty dict.
EmptyMirror == [p \in {} |-> {}]

\* d[k] = v
DictSet(d, k, v) == [q \in (DOMAIN d) \cup {k} |-> IF q = k THEN v ELSE d[q]]

\* del d[k]
DictDel(d, k) == [q \in (DOMAIN d) \ {k} |-> d[q]]

\* One pass of the for loop: st is the mirror and the two counters.
ulr_add(st, fib_op) ==
    IF fib_op.prefix \notin DOMAIN st.m
    THEN [st EXCEPT !.m = DictSet(st.m, fib_op.prefix,
                                  IF TruthyAddr(fib_op.next_hop)
                                  THEN {fib_op.next_hop} ELSE {}),
                    !.adds = @ + 1]
    ELSE IF TruthyAddr(fib_op.next_hop)
    THEN [st EXCEPT !.m = DictSet(st.m, fib_op.prefix,
                                  st.m[fib_op.prefix] \cup {fib_op.next_hop}),
                    !.adds = @ + 1]
    ELSE st

\* Mutant: the emptied key is not dropped.
ulr_remove_keeps_key(st, fib_op) ==
    IF fib_op.prefix \notin DOMAIN st.m
    THEN st
    ELSE LET found == fib_op.next_hop \in st.m[fib_op.prefix]
         IN  [st EXCEPT !.m = DictSet(st.m, fib_op.prefix,
                                      st.m[fib_op.prefix] \ {fib_op.next_hop}),
                        !.dels = IF found THEN @ + 1 ELSE @]

\* Mutant: a Remove whose next-hop is not in the set drops the prefix.
ulr_remove_unknown_drops_prefix(st, fib_op) ==
    IF fib_op.prefix \notin DOMAIN st.m
    THEN st
    ELSE IF fib_op.next_hop \notin st.m[fib_op.prefix]
    THEN [st EXCEPT !.m = DictDel(st.m, fib_op.prefix), !.dels = @ + 1]
    ELSE LET left == st.m[fib_op.prefix] \ {fib_op.next_hop}
         IN  [st EXCEPT !.m = IF left = {} THEN DictDel(st.m, fib_op.prefix)
                                ELSE DictSet(st.m, fib_op.prefix, left),
                        !.dels = @ + 1]

ulr_remove(st, fib_op) ==
    IF fib_op.prefix \notin DOMAIN st.m
    THEN st
    ELSE LET found  == fib_op.next_hop \in st.m[fib_op.prefix]
             left   == st.m[fib_op.prefix] \ {fib_op.next_hop}
             m1     == IF found THEN DictSet(st.m, fib_op.prefix, left) ELSE st.m
             empty  == m1[fib_op.prefix] = {}
             m2     == IF empty THEN DictDel(m1, fib_op.prefix) ELSE m1
             del_ops == (IF found THEN 1 ELSE 0) + (IF empty THEN 1 ELSE 0)
         IN  [st EXCEPT !.m = m2,
                        !.dels = IF del_ops # 0 THEN @ + 1 ELSE @]

\* Mutant: only the routes via the intent's next-hop are dropped.
ulr_remove_all_via(st, fib_op) ==
    LET kept == {p \in DOMAIN st.m : st.m[p] \ {fib_op.next_hop} # {}}
    IN  [st EXCEPT !.m = [p \in kept |-> st.m[p] \ {fib_op.next_hop}],
                   !.dels = @ + Cardinality(DOMAIN st.m)]

ulr_remove_all(st, fib_op) ==
    [st EXCEPT !.m = EmptyMirror,
               !.dels = @ + Cardinality(DOMAIN st.m)]

ulr_step(st, fib_op) ==
    CASE fib_op.operation = "ADD_ROUTE"         -> ulr_add(st, fib_op)
      [] fib_op.operation = "REMOVE_ROUTE"      -> ulr_remove(st, fib_op)
      [] fib_op.operation = "REMOVE_ALL_ROUTES" -> ulr_remove_all(st, fib_op)
      [] OTHER                                  -> st

RECURSIVE ulr_loop(_, _)
ulr_loop(st, fib_operations) ==
    IF fib_operations = <<>>
    THEN st
    ELSE ulr_loop(ulr_step(st, Head(fib_operations)), Tail(fib_operations))

\* _update_learnt_routes(fib_operations) on mirror m: the mirror after, and
\* the returned (add_count, del_count).
update_learnt_routes(m, fib_operations) ==
    ulr_loop([m |-> m, adds |-> 0, dels |-> 0], fib_operations)

---------------------------------------------------------------------------
(* SpecMirror: _update_learnt_routes called with any batch of intents *)

MaxBatch == 1

MirrorPrefixes == {DEFAULT_v6_route, Net(6, <<1>>)}
MirrorNextHops == {Addr(6, 1), Addr(6, 2)}

\* Every Add, Remove and RemoveAll intent over the prefixes and next-hops
\* (None included), and one intent of an operation the function ignores.
MirrorIntents ==
    { FibPrefix(p, nh, op) : p \in MirrorPrefixes,
                             nh \in MirrorNextHops \cup {NoneAddr},
                             op \in FibOperation \ {"NOTHING"} }
      \cup {FibPrefix(DEFAULT_v6_route, NoneAddr, "NOTHING")}

\* Sequences over S of length 1..n
RECURSIVE SeqsUpTo(_, _)
SeqsUpTo(S, n) ==
    IF n = 0 THEN {}
    ELSE LET shorter == SeqsUpTo(S, n - 1)
         IN  {<<x>> : x \in S} \cup shorter
                \cup {Append(s, x) : s \in shorter, x \in S}

NoCall == [ops |-> <<>>, before |-> EmptyMirror, adds |-> 0, dels |-> 0]

\* The set difference of adds minus removes, intent by intent.
RECURSIVE NetAfter(_, _)
NetAfter(pairs, ops) ==
    IF ops = <<>> THEN pairs
    ELSE LET o == Head(ops)
             pr == <<o.prefix, o.next_hop>>
         IN  NetAfter(IF o.operation = "ADD_ROUTE" THEN pairs \cup {pr}
                      ELSE IF o.operation = "REMOVE_ROUTE" THEN pairs \ {pr}
                      ELSE pairs,
                      Tail(ops))

PlainIntent(o) ==
    /\ o.operation \in {"ADD_ROUTE", "REMOVE_ROUTE"}
    /\ o.next_hop # NoneAddr

MirrorInit ==
    /\ BGP_LEARNT_PREFIXES = EmptyMirror
    /\ ulr_call = NoCall
    /\ net_routes = {}
    /\ plain_history = TRUE

\* The call and its effect on the mirror.
UpdateLearntRoutes(ops) ==
    LET r == update_learnt_routes(BGP_LEARNT_PREFIXES, ops)
    IN  /\ BGP_LEARNT_PREFIXES' = r.m
        /\ ulr_call' = [ops |-> ops, before |-> BGP_LEARNT_PREFIXES,
                        adds |-> r.adds, dels |-> r.dels]
        /\ plain_history' = (plain_history /\ \A i \in 1..Len(ops) : PlainIntent(ops[i]))
        /\ net_routes' = IF plain_history' THEN NetAfter(net_routes, ops) ELSE {}

MirrorBatches == SeqsUpTo(MirrorIntents, MaxBatch)

CallUpdateLearntRoutes ==
    /\ \E ops \in MirrorBatches : UpdateLearntRoutes(ops)
    /\ UNCHANGED notMirror

NextMirror == CallUpdateLearntRoutes

\* Batches of several intents, as fib_operation_runner hands them over
\* (the whole batch, each time one of its intents succeeded): two next-hops
\* of one prefix, one of another, an Add without next-hop, a RemoveAll.
MaxApplied == 2

AppliedIntents ==
    { FibPrefix(Net(6, <<1>>), nh, op) :
          nh \in MirrorNextHops, op \in {"ADD_ROUTE", "REMOVE_ROUTE"} }
      \cup { FibPrefix(Net(6, <<0, 1>>), Addr(6, 1), "ADD_ROUTE"),
             FibPrefix(Net(6, <<1>>), NoneAddr, "ADD_ROUTE"),
             FibPrefix(DEFAULT_v6_route, Addr(6, 1), "REMOVE_ALL_ROUTES") }

AppliedBatches == SeqsUpTo(AppliedIntents, MaxApplied)

ApplyBatch ==
    /\ \E ops \in AppliedBatches : UpdateLearntRoutes(ops)
    /\ UNCHANGED notMirror

NextApply == ApplyBatch

---------------------------------------------------------------------------
(* fibs.py: get_fib, prefix_consumer, fib_operation_runner *)

MaxQueue == 1

\* get_fib: "Linux" is the one FIB there is; any other name raises ValueError.
get_fib_raises(fib_name) == fib_name # "Linux"

\* fibs = {f: get_fib(f, config) for f in fib_names}: the keys of the dict.
FibsOf(names) == {names[i] : i \in 1..Len(names)}

\* What awaiting one FIB coroutine (add_route, del_route, del_all_routes) can
\* give: True, False, or an exception (the backend command cannot be
\* spawned, the route table does not parse).
FibOutcomes == {"true", "false", "raise"}

\* The coroutines fib_operation_runner makes for one intent: one per FIB,
\* none for an Add or Remove without a next-hop or an unhandled operation.
route_tasks(fibs, fib_operation) ==
    CASE fib_operation.operation \in {"ADD_ROUTE", "REMOVE_ROUTE"} ->
            IF TruthyAddr(fib_operation.next_hop) THEN fibs ELSE {}
      [] fib_operation.operation = "REMOVE_ALL_ROUTES" -> fibs
      [] OTHER -> {}

ConsIdle ==
    /\ learn_queue = <<>>
    /\ fib_names = <<"Linux">>
    /\ dry_run = FALSE
    /\ cons_pc = "start"
    /\ cons_ops = <<>>
    /\ cons_idx = 0
    /\ cons_results = <<>>
    /\ cons_before = EmptyMirror

ConsInit ==
    /\ learn_queue = <<>>
    /\ fib_names \in {<<"Linux">>, <<"Linux", "JunOS">>}
    /\ dry_run \in BOOLEAN
    /\ cons_pc = "start"
    /\ cons_ops = <<>>
    /\ cons_idx = 0
    /\ cons_results = <<>>
    /\ cons_before = EmptyMirror

\* prefix_consumer up to its loop: the FIBs are made, or get_fib raises and
\* the consumer task ends with that exception.
ConsumerStart ==
    /\ cons_pc = "start"
    /\ cons_pc' = IF \E f \in FibsOf(fib_names) : get_fib_raises(f)
                  THEN "failed" ELSE "get"
    /\ UNCHANGED <<learn_queue, fib_names, dry_run, cons_ops, cons_idx,
                   cons_results, cons_before, mirrorVars, notConsumer>>

\* prefix_queue.get() handing out the newest batch
ConsumerGet_takes_last ==
    /\ cons_pc = "get"
    /\ learn_queue # <<>>
    /\ cons_ops' = learn_queue[Len(learn_queue)]
    /\ learn_queue' = SubSeq(learn_queue, 1, Len(learn_queue) - 1)
    /\ cons_idx' = 1
    /\ cons_results' = <<>>
    /\ cons_before' = BGP_LEARNT_PREFIXES
    /\ cons_pc' = "run"
    /\ UNCHANGED <<fib_names, dry_run, mirrorVars, notConsumer>>

\* fib_operations = await prefix_queue.get(); fib_operation_runner begins.
ConsumerGet ==
    /\ cons_pc = "get"
    /\ learn_queue # <<>>
    /\ cons_ops' = Head(learn_queue)
    /\ learn_queue' = Tail(learn_queue)
    /\ cons_idx' = 1
    /\ cons_results' = <<>>
    /\ cons_before' = BGP_LEARNT_PREFIXES
    /\ cons_pc' = "run"
    /\ UNCHANGED <<fib_names, dry_run, mirrorVars, notConsumer>>

\* After intent cons_idx: on to the next one, or back to prefix_queue.get().
ConsAdvance(result) ==
    /\ cons_results' = Append(cons_results, result)
    /\ cons_idx' = cons_idx + 1
    /\ cons_pc' = IF cons_idx = Len(cons_ops) THEN "get" ELSE "run"
    /\ UNCHANGED <<learn_queue, fib_names, dry_run, cons_ops, cons_before>>

\* fib_operation_runner gathering the route tasks in a dry run too
runner_step_ignores_dry_run(tasks, dry) ==
    IF tasks = {} THEN "skipped" ELSE "gather"

\* fib_operation_runner, one intent up to its gather: no route task was made
\* (`continue`), it is a dry run (`continue`), or the tasks are gathered.
runner_step(tasks, dry) ==
    IF tasks = {} THEN "skipped"
    ELSE IF dry THEN "dry_run"
    ELSE "gather"

\* prefix_consumer ending with whatever fib_operation_runner raised
consumer_handler_reraises(exc) ==
    IF exc = "CancelledError" THEN "cancelled" ELSE "failed"

\* prefix_consumer's handlers around one batch: CancelledError is raised
\* on, any other Exception is logged and the loop goes back to the queue.
consumer_handler(exc) ==
    IF exc = "CancelledError" THEN "cancelled" ELSE "get"

\* One pass of fib_operation_runner's loop: the intent's FIB coroutines are
\* gathered and, when all of them returned True, the mirror is updated with
\* fib_operations, the whole batch.
RunIntent ==
    /\ cons_pc = "run"
    /\ LET fib_operation == cons_ops[cons_idx]
           tasks == route_tasks(FibsOf(fib_names), fib_operation)
           step == runner_step(tasks, dry_run)
       IN  IF step # "gather"
           THEN ConsAdvance(step) /\ UNCHANGED mirrorVars
           ELSE \E update_success \in [tasks -> FibOutcomes] :
                  IF \E t \in tasks : update_success[t] = "raise"
                  THEN \* out of fib_operation_runner, caught in prefix_consumer
                       /\ cons_results' = Append(cons_results, "raise")
                       /\ cons_pc' = consumer_handler("Exception")
                       /\ UNCHANGED <<learn_queue, fib_names, dry_run, cons_ops,
                                      cons_idx, cons_before, mirrorVars>>
                  ELSE IF \A t \in tasks : update_success[t] = "true"
                  THEN ConsAdvance("true") /\ UpdateLearntRoutes(cons_ops)
                  ELSE ConsAdvance("false") /\ UNCHANGED mirrorVars
    /\ UNCHANGED notConsumer

\* fib_consumer.cancel(): CancelledError at the consumer's await.
ConsumerCancel ==
    /\ cons_pc \in {"get", "run"}
    /\ cons_pc' = "cancelled"
    /\ UNCHANGED <<learn_queue, fib_names, dry_run, cons_ops, cons_idx,
                   cons_results, cons_before, mirrorVars, notConsumer>>

\* The batches the Learner puts on the queue: the Add and Remove intents of
\* one update message, or the one RemoveAllRoutes of a peer-down message.
QueuePrefixes == {Net(6, <<0>>), Net(6, <<1>>)}
QueuePeer == Addr(6, 1)

QueueBatches ==
    {<<FibPrefix(p, QueuePeer, op)>> :
        p \in QueuePrefixes, op \in {"ADD_ROUTE", "REMOVE_ROUTE"}}
    \cup {<<FibPrefix(Net(6, <<0>>), QueuePeer, op1),
            FibPrefix(Net(6, <<1>>), QueuePeer, op2)>> :
            op1 \in {"ADD_ROUTE", "REMOVE_ROUTE"}, op2 \in {"ADD_ROUTE", "REMOVE_ROUTE"}}
    \cup {<<FibPrefix(DEFAULT_v6_route, QueuePeer, "REMOVE_ALL_ROUTES")>>}

\* await self.learn_queue.put(fib_operations)
LearnerPut ==
    /\ Len(learn_queue) < MaxQueue
    /\ cons_pc # "cancelled"
    /\ \E ops \in QueueBatches : learn_queue' = Append(learn_queue, ops)
    /\ UNCHANGED <<fib_names, dry_run, cons_pc, cons_ops, cons_idx,
                   cons_results, cons_before, mirrorVars, notConsumer>>

\* The Learner running ahead of the consumer: prefix_queue is an unbounded
\* asyncio.Queue, so put never waits and batches pile up behind the one
\* being applied.
MaxBacklog == 2

BacklogBatches ==
    { <<FibPrefix(Net(6, <<0>>), QueuePeer, "ADD_ROUTE")>>,
      <<FibPrefix(Net(6, <<0>>), QueuePeer, "REMOVE_ROUTE"),
        FibPrefix(Net(6, <<1>>), QueuePeer, "ADD_ROUTE")>>,
      <<FibPrefix(DEFAULT_v6_route, QueuePeer, "REMOVE_ALL_ROUTES")>> }

LearnerPutBacklog ==
    /\ Len(learn_queue) < MaxBacklog
    /\ cons_pc # "cancelled"
    /\ \E ops \in BacklogBatches : learn_queue' = Append(learn_queue, ops)
    /\ UNCHANGED <<fib_names, dry_run, cons_pc, cons_ops, cons_idx,
                   cons_results, cons_before, mirrorVars, notConsumer>>

NextQueue ==
    \/ ConsumerStart
    \/ ConsumerGet
    \/ RunIntent
    \/ ConsumerCancel
    \/ LearnerPutBacklog

NextConsumer ==
    \/ ConsumerStart
    \/ ConsumerGet
    \/ RunIntent
    \/ ConsumerCancel
    \/ LearnerPut

---------------------------------------------------------------------------
(* utils.py: run_cmd; healthcheck.py: PingChecker *)

TIMEOUT_DEFAULT == 5

\* str(n) for the small numbers of a ping command line
Str(n) == <<"1", "2", "3", "4", "5">>[n]

\* subprocess.CompletedProcess
CompletedProcess(args, returncode, stderr, stdout) ==
    [args |-> args, returncode |-> returncode, stderr |-> stderr, stdout |-> stdout]

NoCP == CompletedProcess(<<>>, 0, "", "")

\* bool(x) of an instance of a class that defines neither __bool__ nor
\* __len__, as subprocess.CompletedProcess: every instance is true.
TruthyObject(x) == TRUE

\* How a spawned subprocess can end for run_cmd: it exits with a status
\* within the timeout, wait_for times out, or communicate() returns with
\* process.returncode still None.
ProcessEnds == {[kind |-> "exit", status |-> st] : st \in {0, 1, 2}}
               \cup {[kind |-> "timeout", status |-> 0],
                      [kind |-> "no_returncode", status |-> 0]}

\* What create_subprocess_exec can do instead: raise (no such executable).
SpawnError == [kind |-> "spawn_error", status |-> 0]

NotRun == [kind |-> "not_run", status |-> 0]

\* run_cmd(cmd, timeout) for a subprocess that was spawned and ended as `end`
run_cmd(cmd, end) ==
    CASE end.kind = "timeout"       -> CompletedProcess(cmd, -1, "TIMEOUT", "")
      [] end.kind = "no_returncode" -> CompletedProcess(cmd, -2, "Returncode is None", "")
      [] OTHER                      -> CompletedProcess(cmd, end.status, "stderr", "stdout")

\* PingChecker.__init__
PingChecker(target_ip, count, timeout) ==
    [target_ip |-> target_ip, count |-> count, timeout |-> timeout,
     wait |-> timeout - 1]

\* The command PingChecker.do_ping builds.
do_ping_cmd(self, sys) ==
    (IF self.target_ip.version = 6 THEN <<"ping6">> ELSE <<"ping">>)
    \o (IF sys # "Darwin" THEN <<"-w", Str(self.wait)>> ELSE <<>>)
    \o <<"-c", Str(self.count), self.target_ip.text>>

\* PingChecker.check once run_cmd has returned cp: `if await self.do_ping()`
check_returns(cp) == IF TruthyObject(cp) THEN TRUE ELSE FALSE

PingTargets == {[version |-> 4, text |-> "6.9.6.9"], [version |-> 6, text |-> "69::69"],
                [version |-> 6, text |-> "70::69"]}

PingCheckers ==
    {PingChecker(t, c, to) : t \in PingTargets, c \in {1, 2},
                             to \in {2, TIMEOUT_DEFAULT}}

PingIdle ==
    /\ system = "Linux"
    /\ ping_self = PingChecker([version |-> 6, text |-> "69::69"], 2, TIMEOUT_DEFAULT)
    /\ ping_pc = "idle"
    /\ ping_cmd = <<>>
    /\ ping_end = NotRun
    /\ ping_cp = NoCP
    /\ ping_result = FALSE

PingInit ==
    /\ system \in {"Linux", "Darwin"}
    /\ ping_self \in PingCheckers
    /\ ping_pc = "idle"
    /\ ping_cmd = <<>>
    /\ ping_end = NotRun
    /\ ping_cp = NoCP
    /\ ping_result = FALSE

\* check() -> do_ping() -> run_cmd(): the subprocess is spawned.
PingSpawn ==
    /\ ping_pc = "idle"
    /\ ping_cmd' = do_ping_cmd(ping_self, system)
    /\ ping_pc' = "communicate"
    /\ ping_end' = NotRun
    /\ ping_cp' = NoCP
    /\ UNCHANGED <<system, ping_self, ping_result, notPing>>

\* create_subprocess_exec raises: the exception leaves run_cmd and do_ping
\* and is caught in check(), which returns False.
PingSpawnFails ==
    /\ ping_pc = "idle"
    /\ ping_cmd' = do_ping_cmd(ping_self, system)
    /\ ping_end' = SpawnError
    /\ ping_cp' = NoCP
    /\ ping_result' = FALSE
    /\ ping_pc' = "done"
    /\ UNCHANGED <<system, ping_self, notPing>>

\* The subprocess ends or times out; run_cmd returns its CompletedProcess to
\* do_ping, do_ping to check(), and check() returns.
PingReturns ==
    /\ ping_pc = "communicate"
    /\ \E end \in ProcessEnds :
         /\ ping_end' = end
         /\ ping_cp' = run_cmd(ping_cmd, end)
         /\ ping_result' = check_returns(run_cmd(ping_cmd, end))
    /\ ping_pc' = "done"
    /\ UNCHANGED <<system, ping_self, ping_cmd, notPing>>

\* The next advertise cycle calls check() again.
PingAgain ==
    /\ ping_pc = "done"
    /\ ping_pc' = "idle"
    /\ UNCHANGED <<system, ping_self, ping_cmd, ping_end, ping_cp, ping_result,
                   notPing>>

NextPing ==
    \/ PingSpawn
    \/ PingSpawnFails
    \/ PingReturns
    \/ PingAgain

---------------------------------------------------------------------------
(* announcer/__init__.py: Announcer.advertise, add_routes, withdraw_routes,
   nonblock_print *)

MaxChecks == 2
MaxCycles == 1

\* The prefixes of config["advertise"]["prefixes"]
AdvPrefixes == {Net(6, <<0>>), Net(6, <<1>>)}

\* config["advertise"]["next_hop"] after validate_next_hop
AdvNextHop == "self"

\* Python's s[a:b] for 0 <= a: the elements a+1 .. min(b, len(s)) of s
PySlice(s, a, b) ==
    LET hi == IF b < Len(s) THEN b ELSE Len(s)
    IN  IF a + 1 > hi THEN <<>> ELSE SubSeq(s, a + 1, hi)

\* all(s)
All(s) == \A k \in 1..Len(s) : s[k]

\* set(s)
SetOf(s) == {s[k] : k \in 1..Len(s)}

\* The second loop of advertise() from prefix number i on: each prefix is
\* appended to the advertise or to the withdraw list on results[start_at:
\* start_at + len(checks)], and start_at moves on by one.
RECURSIVE sort_prefixes(_, _, _, _, _, _)
sort_prefixes(prefixes, results, i, start_at, adv, wd) ==
    IF i > Len(prefixes)
    THEN [advertise_routes |-> adv, withdraw_routes |-> wd]
    ELSE LET prefix == prefixes[i].prefix
             end_results == start_at + prefixes[i].checks
             my_results == PySlice(results, start_at, end_results)
             \* a map object is an object as any other: true
             healthy == TruthyObject(my_results) /\ All(my_results)
         IN  sort_prefixes(prefixes, results, i + 1, start_at + 1,
                           IF healthy THEN Append(adv, prefix) ELSE adv,
                           IF healthy THEN wd ELSE Append(wd, prefix))

\* The line add_routes / withdraw_routes prints for a prefix.
Line(cmd, prefix) == [cmd |-> cmd, prefix |-> prefix, next_hop |-> AdvNextHop]

\* The number of check() coroutines gathered: one per checker of each prefix.
RECURSIVE NumChecks(_)
NumChecks(prefixes) ==
    IF prefixes = <<>> THEN 0
    ELSE Head(prefixes).checks + NumChecks(Tail(prefixes))

\* The dicts advertise_prefixes can be: one or two prefixes in either order,
\* each with 0..MaxChecks checkers.
AdvConfigs ==
    {<<[prefix |-> p, checks |-> n]>> : p \in AdvPrefixes, n \in 0..MaxChecks}
    \cup {c \in {<<[prefix |-> p, checks |-> n], [prefix |-> q, checks |-> m]>> :
                    p \in AdvPrefixes, q \in AdvPrefixes,
                    n \in 0..MaxChecks, m \in 0..MaxChecks} :
            c[1].prefix # c[2].prefix}

AdvIdle ==
    /\ advertise_prefixes = <<>>
    /\ adv_pc = "not_started"
    /\ cycles = 0
    /\ healthcheck_results = <<>>
    /\ advertise_routes = <<>>
    /\ withdraw_routes = <<>>
    /\ adv_i = 0
    /\ success = 0
    /\ print_results = <<>>
    /\ healthy_prefixes = {}
    /\ print_lock = "free"
    /\ writes = <<>>
    /\ stdout_lines = <<>>

\* Announcer.__init__, and advertise() up to its first gather
AdvInit ==
    /\ advertise_prefixes \in AdvConfigs
    /\ adv_pc = "checks"
    /\ cycles = 0
    /\ healthcheck_results = <<>>
    /\ advertise_routes = <<>>
    /\ withdraw_routes = <<>>
    /\ adv_i = 0
    /\ success = 0
    /\ print_results = <<>>
    /\ healthy_prefixes = {}
    /\ print_lock = "free"
    /\ writes = <<>>
    /\ stdout_lines = <<>>

\* advertise() taking the advertise list for healthy whatever add_routes
\* returned
AfterRoutes_ignores_count(phase, adv, wd, count) ==
    IF phase = "start"
    THEN [pc |-> IF adv # <<>> THEN "add" ELSE IF wd # <<>> THEN "withdraw" ELSE "sleep",
          healthy |-> healthy_prefixes]
    ELSE IF phase = "add"
    THEN [pc |-> IF wd # <<>> THEN "withdraw" ELSE "sleep",
          healthy |-> SetOf(adv)]
    ELSE [pc |-> "sleep",
          healthy |-> IF adv = <<>> THEN {} ELSE healthy_prefixes]

\* What advertise() does after add_routes returned (phase "add") or after
\* withdraw_routes returned (phase "withdraw"), up to its next await: the
\* healthy prefixes are set, and withdraw_routes is called or the cycle sleeps.
AfterRoutes(phase, adv, wd, count) ==
    IF phase = "start"
    THEN [pc |-> IF adv # <<>> THEN "add" ELSE IF wd # <<>> THEN "withdraw" ELSE "sleep",
          healthy |-> healthy_prefixes]
    ELSE IF phase = "add"
    THEN [pc |-> IF wd # <<>> THEN "withdraw" ELSE "sleep",
          healthy |-> IF count = 0 THEN {} ELSE SetOf(adv)]
    ELSE [pc |-> "sleep",
          healthy |-> IF adv = <<>> THEN {} ELSE healthy_prefixes]

\* healthcheck_results = await asyncio.gather(*healthcheck_coros): every
\* check() returned True or False; the prefixes are sorted into the two lists.
HealthChecksReturn ==
    /\ adv_pc = "checks"
    /\ cycles < MaxCycles
    /\ cycles' = cycles + 1
    /\ \E results \in [1..NumChecks(advertise_prefixes) -> BOOLEAN] :
         LET lists == sort_prefixes(advertise_prefixes, results, 1, 0, <<>>, <<>>)
             next == AfterRoutes("start", lists.advertise_routes,
                                 lists.withdraw_routes, 0)
         IN  /\ healthcheck_results' = results
             /\ advertise_routes' = lists.advertise_routes
             /\ withdraw_routes' = lists.withdraw_routes
             /\ adv_pc' = next.pc
             /\ healthy_prefixes' = next.healthy
    /\ adv_i' = 1
    /\ success' = 0
    /\ print_results' = <<>>
    /\ UNCHANGED <<advertise_prefixes, print_lock, writes, stdout_lines, notAdvertise>>

\* A check() raises: gather raises it in advertise(), which has no handler.
HealthCheckRaises ==
    /\ adv_pc = "checks"
    /\ cycles < MaxCycles
    /\ NumChecks(advertise_prefixes) > 0
    /\ cycles' = cycles + 1
    /\ adv_pc' = "failed"
    /\ UNCHANGED <<advertise_prefixes, healthcheck_results, advertise_routes,
                   withdraw_routes, adv_i, success, print_results,
                   healthy_prefixes, print_lock, writes, stdout_lines, notAdvertise>>

\* The list add_routes or withdraw_routes is walking.
CurrentRoutes == IF adv_pc \in {"add", "add_wait"} THEN advertise_routes
                 ELSE withdraw_routes

CurrentCmd == IF adv_pc \in {"add", "add_wait"} THEN "announce" ELSE "withdraw"

\* nonblock_print: the lock is taken and print(output, flush=True) is handed
\* to the executor, where a thread starts it; the caller awaits it with
\* wait_for. (The bounds keep the writes below the pool's 8 threads.)
PrintBegin ==
    /\ adv_pc \in {"add", "withdraw"}
    /\ print_lock = "free"
    /\ print_lock' = "advertise"
    /\ writes' = Append(writes, [line |-> Line(CurrentCmd, CurrentRoutes[adv_i]),
                                 awaited |-> TRUE])
    /\ adv_pc' = IF adv_pc = "add" THEN "add_wait" ELSE "withdraw_wait"
    /\ UNCHANGED <<advertise_prefixes, cycles, healthcheck_results, advertise_routes,
                   withdraw_routes, adv_i, success, print_results,
                   healthy_prefixes, stdout_lines, notAdvertise>>

\* add_routes / withdraw_routes returning at the first line not written
AfterPrint_stops_at_failure(print_success) ==
    LET count == IF print_success THEN success + 1 ELSE success
        phase == IF adv_pc = "add_wait" THEN "add" ELSE "withdraw"
    IN  /\ print_results' = Append(print_results, print_success)
        /\ IF print_success /\ adv_i < Len(CurrentRoutes)
           THEN /\ adv_i' = adv_i + 1
                /\ success' = count
                /\ adv_pc' = phase
                /\ UNCHANGED healthy_prefixes
           ELSE LET next == AfterRoutes(phase, advertise_routes, withdraw_routes, count)
                IN  /\ adv_i' = 1
                    /\ success' = 0
                    /\ adv_pc' = next.pc
                    /\ healthy_prefixes' = next.healthy

\* nonblock_print has returned print_success to add_routes / withdraw_routes:
\* the loop goes to the next prefix or returns its count to advertise().
AfterPrint(print_success) ==
    LET count == IF print_success THEN success + 1 ELSE success
        phase == IF adv_pc = "add_wait" THEN "add" ELSE "withdraw"
    IN  /\ print_results' = Append(print_results, print_success)
        /\ IF adv_i < Len(CurrentRoutes)
           THEN /\ adv_i' = adv_i + 1
                /\ success' = count
                /\ adv_pc' = phase
                /\ UNCHANGED healthy_prefixes
           ELSE LET next == AfterRoutes(phase, advertise_routes, withdraw_routes, count)
                IN  /\ adv_i' = 1
                    /\ success' = 0
                    /\ adv_pc' = next.pc
                    /\ healthy_prefixes' = next.healthy

Drop(s, k) == SubSeq(s, 1, k - 1) \o SubSeq(s, k + 1, Len(s))

\* The awaited print() ends in time: the line is out, the lock is released
\* and nonblock_print returns True.
PrintSucceeds ==
    /\ adv_pc \in {"add_wait", "withdraw_wait"}
    /\ \E k \in 1..Len(writes) :
         /\ writes[k].awaited
         /\ stdout_lines' = Append(stdout_lines, writes[k].line)
         /\ writes' = Drop(writes, k)
    /\ print_lock' = "free"
    /\ AfterPrint(TRUE)
    /\ UNCHANGED <<advertise_prefixes, cycles, healthcheck_results, advertise_routes,
                   withdraw_routes, notAdvertise>>

\* wait_for gives up after print_timeout: the future is cancelled, but the
\* thread that runs print() is not, so the write goes on with nobody
\* awaiting it; the lock is released and nonblock_print returns False.
PrintTimesOut ==
    /\ adv_pc \in {"add_wait", "withdraw_wait"}
    /\ writes' = [k \in 1..Len(writes) |-> [writes[k] EXCEPT !.awaited = FALSE]]
    /\ print_lock' = "free"
    /\ AfterPrint(FALSE)
    /\ UNCHANGED <<advertise_prefixes, cycles, healthcheck_results, advertise_routes,
                   withdraw_routes, stdout_lines, notAdvertise>>

\* A print() nobody awaits any more ends: its line is out.
AbandonedWriteEnds ==
    /\ \E k \in 1..Len(writes) :
         /\ ~writes[k].awaited
         /\ stdout_lines' = Append(stdout_lines, writes[k].line)
         /\ writes' = Drop(writes, k)
    /\ UNCHANGED <<advertise_prefixes, adv_pc, cycles, healthcheck_results,
                   advertise_routes, withdraw_routes, adv_i, success, print_results,
                   healthy_prefixes, print_lock, notAdvertise>>

\* await asyncio.sleep(sleep_time) returns: the next cycle's checks are
\* scheduled and gathered.
SleepEnds ==
    /\ adv_pc = "sleep"
    /\ adv_pc' = "checks"
    /\ UNCHANGED <<advertise_prefixes, cycles, healthcheck_results, advertise_routes,
                   withdraw_routes, adv_i, success, print_results,
                   healthy_prefixes, print_lock, writes, stdout_lines, notAdvertise>>

NextAdvertise ==
    \/ HealthChecksReturn
    \/ HealthCheckRaises
    \/ PrintBegin
    \/ PrintSucceeds
    \/ PrintTimesOut
    \/ AbandonedWriteEnds
    \/ SleepEnds

---------------------------------------------------------------------------
(* exabgpparser.py: ExaBGPParser.parse, parse_update *)

\* d has key k (a JSON object is a record of its members)
HasKey(d, k) == k \in DOMAIN d

\* ipaddress.ip_network(text) for the texts of the model: the network a text
\* denotes; a text that is no key raises ValueError (host bits set, no
\* address at all). Two spellings can denote one network.
NetworkOf ==
    "::/0" :> DEFAULT_v6_route @@ "0.0.0.0/0" :> DEFAULT_v4_route
    @@ "8000::/1" :> Net(6, <<1>>)
    @@ "8000::/2" :> Net(6, <<1, 0>>) @@ "8000:0::/2" :> Net(6, <<1, 0>>)
    @@ "8000::/3" :> Net(6, <<1, 0, 0>>)
    @@ "4000::/2" :> Net(6, <<0, 1>>) @@ "c000::/2" :> Net(6, <<1, 1>>)
    @@ "128.0.0.0/1" :> Net(4, <<1>>) @@ "64.0.0.0/2" :> Net(4, <<0, 1>>)

ValidNetwork(text) == text \in DOMAIN NetworkOf

ip_network(text) == NetworkOf[text]

\* ipaddress.ip_address(text), likewise
AddressOf ==
    "fc00::1" :> Addr(6, 1) @@ "FC00:0::1" :> Addr(6, 1) @@ "fc00::2" :> Addr(6, 2)
    @@ "10.0.0.1" :> Addr(4, 1)
    @@ "fc00::11" :> Addr(6, 17) @@ "fe80::1" :> Addr(6, 254)
    @@ "169.254.0.1" :> Addr(4, 254)

ValidAddress(text) == text \in DOMAIN AddressOf

ip_address(text) == AddressOf[text]

\* str.lower() for the texts of the model
LowerOf == "STATE" :> "state" @@ "Update" :> "update" @@ "Up" :> "up"
           @@ "DOWN" :> "down" @@ "Connected" :> "connected"

\* str.lower() taken for the identity
lower_identity(text) == text

lower(text) == IF text \in DOMAIN LowerOf THEN LowerOf[text] ELSE text

SUPPORTED_API_VERSION == "4.0.1"

\* The wanted families without IPv4
DEFAULT_FAMALIES_v6_only == {"ipv6 unicast"}

DEFAULT_FAMALIES == {"ipv4 unicast", "ipv6 unicast"}

\* What a call gives: the list it returns, or the exception it raises.
Return(ops) == [raised |-> "none", ops |-> ops]
Raise(exc) == [raised |-> exc, ops |-> <<>>]

\* Lists of the length of S that may name a member twice
OrderingsWithRepeats(S) == [1..Cardinality(S) -> S]

\* The orders in which a set can be iterated.
Orderings(S) ==
    {o \in [1..Cardinality(S) -> S] :
        \A i \in 1..Cardinality(S), j \in 1..Cardinality(S) : o[i] = o[j] => i = j}

\* parse_update: `for prefix in prefixes: fib_prefixes.append(FibPrefix(
\* ip_network(prefix["nlri"]), ip_address(hop), operation))`, on the list and
\* the exception so far.
RECURSIVE nlri_loop(_, _, _, _)
nlri_loop(prefixes, hop, operation, acc) ==
    IF prefixes = <<>> \/ acc.raised # "none" THEN acc
    ELSE LET prefix == Head(prefixes)
         IN  IF ~HasKey(prefix, "nlri") THEN [acc EXCEPT !.raised = "KeyError"]
             ELSE IF ~ValidNetwork(prefix.nlri) \/ ~ValidAddress(hop)
             THEN [acc EXCEPT !.raised = "ValueError"]
             ELSE nlri_loop(Tail(prefixes), hop, operation,
                            [acc EXCEPT !.ops = Append(@,
                                FibPrefix(ip_network(prefix.nlri), ip_address(hop),
                                          operation))])

\* parse_update: `for next_hop, prefixes in peers.items()`
RECURSIVE announce_loop(_, _)
announce_loop(peers, acc) ==
    IF peers = <<>> \/ acc.raised # "none" THEN acc
    ELSE announce_loop(Tail(peers),
                       nlri_loop(Head(peers).prefixes, Head(peers).next_hop,
                                 "ADD_ROUTE", acc))

\* parse_update: `for family, peers in prefixes.items()`
RECURSIVE family_loop(_, _, _, _)
\* The loop over the families without its withdraw branch
family_loop_no_withdraw(operation, prefixes, peer, acc) ==
    IF prefixes = <<>> \/ acc.raised # "none" THEN acc
    ELSE LET family == Head(prefixes).family
             peers == Head(prefixes).peers
             done == IF family \notin DEFAULT_FAMALIES THEN acc
                     ELSE IF operation = "announce" THEN announce_loop(peers, acc)
                     ELSE acc
         IN  family_loop(operation, Tail(prefixes), peer, done)

family_loop(operation, prefixes, peer, acc) ==
    IF prefixes = <<>> \/ acc.raised # "none" THEN acc
    ELSE LET family == Head(prefixes).family
             peers == Head(prefixes).peers
             done == IF family \notin DEFAULT_FAMALIES THEN acc
                     ELSE IF operation = "announce" THEN announce_loop(peers, acc)
                     ELSE IF operation = "withdraw"
                     THEN nlri_loop(peers, peer, "REMOVE_ROUTE", acc)
                     ELSE acc
         IN  family_loop(operation, Tail(prefixes), peer, done)

\* parse_update: `for operation, prefixes in update_json.items()`
RECURSIVE operation_loop(_, _, _)
operation_loop(update_json, peer, acc) ==
    IF update_json = <<>> \/ acc.raised # "none" THEN acc
    ELSE LET operation == Head(update_json).operation
             done == IF operation = "attribute" THEN acc
                     ELSE family_loop(operation, Head(update_json).prefixes, peer, acc)
         IN  operation_loop(Tail(update_json), peer, done)

\* parse_update without its check of the direction
parse_update_any_direction(exa_json) ==
    IF ~HasKey(exa_json, "neighbor") \/ ~HasKey(exa_json.neighbor, "direction")
    THEN Raise("KeyError")
    ELSE IF \/ ~HasKey(exa_json.neighbor, "message")
            \/ ~HasKey(exa_json.neighbor.message, "update")
            \/ ~HasKey(exa_json.neighbor, "address")
            \/ ~HasKey(exa_json.neighbor.address, "peer")
    THEN Return(<<>>)
    ELSE Return(operation_loop(exa_json.neighbor.message.update,
                               exa_json.neighbor.address.peer,
                               Return(<<>>)).ops)

\* ExaBGPParser.parse_update(exa_json): the direction is read outside the
\* try; KeyError and ValueError inside it end the loops and what was
\* appended so far is returned.
parse_update(exa_json) ==
    IF ~HasKey(exa_json, "neighbor") \/ ~HasKey(exa_json.neighbor, "direction")
    THEN Raise("KeyError")
    ELSE IF exa_json.neighbor.direction # "receive" THEN Return(<<>>)
    ELSE IF \/ ~HasKey(exa_json.neighbor, "message")
            \/ ~HasKey(exa_json.neighbor.message, "update")
            \/ ~HasKey(exa_json.neighbor, "address")
            \/ ~HasKey(exa_json.neighbor.address, "peer")
    THEN Return(<<>>)
    ELSE Return(operation_loop(exa_json.neighbor.message.update,
                               exa_json.neighbor.address.peer,
                               Return(<<>>)).ops)

\* The "state" branch of ExaBGPParser.parse. The AddRoutes of an "up" come
\* in the iteration order of the set, which is any.
parse_state(exa_json, advertise_set) ==
    IF \/ ~HasKey(exa_json, "neighbor")
       \/ ~HasKey(exa_json.neighbor, "address")
       \/ ~HasKey(exa_json.neighbor.address, "peer")
       \/ ~HasKey(exa_json.neighbor, "state")
    THEN {Raise("KeyError")}
    ELSE LET peer == exa_json.neighbor.address.peer
             state == lower(exa_json.neighbor.state)
         IN  IF state = "connected" THEN {Return(<<>>)}
             ELSE IF state = "down"
             THEN IF ~HasKey(exa_json.neighbor, "reason") THEN {Raise("KeyError")}
                  ELSE IF ~ValidAddress(peer) THEN {Raise("ValueError")}
                  ELSE {Return(<<FibPrefix(ip_network("::/0"), ip_address(peer),
                                           "REMOVE_ALL_ROUTES")>>)}
             ELSE IF state = "up"
             THEN IF advertise_set = {} THEN {Return(<<>>)}
                  ELSE IF ~ValidAddress(peer) THEN {Raise("ValueError")}
                  ELSE {Return([i \in 1..Cardinality(advertise_set) |->
                                   FibPrefix(o[i], ip_address(peer), "ADD_ROUTE")]) :
                           o \in Orderings(advertise_set)}
             ELSE {Return(<<>>)}

\* parse without its check of the API version
parse_unversioned(exa_json, advertise_set) ==
    IF ~HasKey(exa_json, "type") THEN {Raise("KeyError")}
    ELSE IF lower(exa_json.type) = "state" THEN parse_state(exa_json, advertise_set)
    ELSE IF lower(exa_json.type) = "update" THEN {parse_update(exa_json)}
    ELSE {Return(<<>>)}

\* ExaBGPParser.parse(exa_json, advertise_prefixes) for a JSON object: what
\* it can give.
parse(exa_json, advertise_set) ==
    IF ~HasKey(exa_json, "exabgp") THEN {Raise("KeyError")}
    ELSE IF exa_json.exabgp # SUPPORTED_API_VERSION THEN {Raise("ValueError")}
    ELSE IF ~HasKey(exa_json, "type") THEN {Raise("KeyError")}
    ELSE IF lower(exa_json.type) = "state" THEN parse_state(exa_json, advertise_set)
    ELSE IF lower(exa_json.type) = "update" THEN {parse_update(exa_json)}
    ELSE {Return(<<>>)}

---------------------------------------------------------------------------
(* announcer/__init__.py: Announcer.remove_internal_networks, learn *)

MaxMsgs == 2
MaxPrefixLen == 3

\* IPv4Network.overlaps / IPv6Network.overlaps for two networks of one
\* version: one holds the other's network or broadcast address, which is
\* that the prefix bits of one begin the prefix bits of the other.
overlaps(a, b) ==
    LET n == IF Len(a.bits) < Len(b.bits) THEN Len(a.bits) ELSE Len(b.bits)
    IN  SubSeq(a.bits, 1, n) = SubSeq(b.bits, 1, n)

\* network_address of a network, as a number of MaxPrefixLen bits
RECURSIVE network_address(_, _)
network_address(bits, width) ==
    IF width = 0 THEN 0
    ELSE IF bits = <<>> THEN 0
    ELSE Head(bits) * 2 ^ (width - 1) + network_address(Tail(bits), width - 1)

\* a < b for two networks of one version: by network address, then netmask
NetworkLess(a, b) ==
    LET na == network_address(a.bits, MaxPrefixLen)
        nb == network_address(b.bits, MaxPrefixLen)
    IN  na < nb \/ (na = nb /\ Len(a.bits) < Len(b.bits))

\* x < y for two FibPrefix tuples of one IP version: element by element.
\* Next-hops of two versions do not compare, nor do two FibOperations.
Comparable(x, y) ==
    x.prefix # y.prefix
    \/ (x.next_hop # y.next_hop /\ x.next_hop.version = y.next_hop.version)

FibPrefixLess(x, y) ==
    IF x.prefix # y.prefix THEN NetworkLess(x.prefix, y.prefix)
    ELSE x.next_hop.val < y.next_hop.val

\* sorted(S) for a set of FibPrefix all of whose pairs compare
RECURSIVE sorted(_)
sorted(S) ==
    IF S = {} THEN <<>>
    ELSE LET least == CHOOSE x \in S : \A y \in S \ {x} : FibPrefixLess(x, y)
         IN  <<least>> \o sorted(S \ {least})

\* sorted(S) raises TypeError when it meets a pair that does not compare,
\* and it meets every such pair that there is.
sorted_raises(S) == \E x \in S, y \in S : x # y /\ ~Comparable(x, y)

\* remove_internal_networks dropping only the advertised prefixes themselves
remove_internal_networks_exact(bgp_prefixes, current_advertise_networks, allow) ==
    LET kept(aprefix) == aprefix.prefix \notin current_advertise_networks
        valid_redist_networks ==
            [v \in {4, 6} |-> {aprefix \in SetOf(bgp_prefixes) :
                                  aprefix.prefix.version = v /\ kept(aprefix)}]
    IN  IF sorted_raises(valid_redist_networks[4])
           \/ sorted_raises(valid_redist_networks[6])
        THEN Raise("TypeError")
        ELSE Return(sorted(valid_redist_networks[4])
                    \o sorted(valid_redist_networks[6]))

\* Announcer.remove_internal_networks(bgp_prefixes) for a non-empty list,
\* with the keys of advertise_prefixes and config["learn"]["allow_default"]
remove_internal_networks(bgp_prefixes, current_advertise_networks, allow) ==
    LET default_prefixes == {ip_network("0.0.0.0/0"), ip_network("::/0")}
        kept(aprefix) ==
            \/ allow /\ aprefix.prefix \in default_prefixes
            \/ /\ aprefix.prefix \notin current_advertise_networks
               /\ ~\E advertise_network \in current_advertise_networks :
                      /\ advertise_network.version = aprefix.prefix.version
                      /\ overlaps(advertise_network, aprefix.prefix)
        valid_redist_networks ==
            [v \in {4, 6} |-> {aprefix \in SetOf(bgp_prefixes) :
                                  aprefix.prefix.version = v /\ kept(aprefix)}]
    IN  IF sorted_raises(valid_redist_networks[4])
           \/ sorted_raises(valid_redist_networks[6])
        THEN Raise("TypeError")
        ELSE Return(sorted(valid_redist_networks[4])
                    \o sorted(valid_redist_networks[6]))

\* `"neighbor" in bgp_json` for what json.loads can return: a dict has the
\* key, a list has the element; a number or null has no `in` (TypeError).
HasIn(bgp_json) == HasKey(bgp_json, "object") \/ HasKey(bgp_json, "array")

NeighborIn(bgp_json) ==
    IF HasKey(bgp_json, "object") THEN HasKey(bgp_json.object, "neighbor")
    ELSE \E i \in 1..Len(bgp_json.array) : bgp_json.array[i] = "neighbor"

\* What one pass of learn()'s loop does with a line.
Continue(why) == [outcome |-> why, exc |-> "none", put |-> <<>>]
Put(fib_operations) == [outcome |-> "put", exc |-> "none", put |-> fib_operations]
Ends(exc) == [outcome |-> "raised", exc |-> exc, put |-> <<>>]

\* learn() from the return of ejp.parse on, with the filter applied to
\* every batch
after_parse_filters_all(parsed, current_advertise_networks, allow) ==
    IF parsed.raised # "none" THEN Ends(parsed.raised)
    ELSE IF parsed.ops = <<>> THEN Continue("nothing_parsed")
    ELSE LET external == remove_internal_networks(parsed.ops,
                                                  current_advertise_networks, allow)
         IN  IF external.raised # "none" THEN Ends(external.raised)
             ELSE IF external.ops = <<>> THEN Continue("no_external_prefix")
             ELSE Put(external.ops)

\* learn() from the return of ejp.parse on
after_parse(parsed, current_advertise_networks, allow) ==
    IF parsed.raised # "none" THEN Ends(parsed.raised)
    ELSE IF parsed.ops = <<>> THEN Continue("nothing_parsed")
    ELSE IF \A i \in 1..Len(parsed.ops) : parsed.ops[i].operation = "REMOVE_ALL_ROUTES"
    THEN Put(parsed.ops)
    ELSE LET external == remove_internal_networks(parsed.ops,
                                                  current_advertise_networks, allow)
         IN  IF external.raised # "none" THEN Ends(external.raised)
             ELSE IF external.ops = <<>> THEN Continue("no_external_prefix")
             ELSE Put(external.ops)

\* One pass of the loop of learn() on the line read: what it can do. Only
\* JSONDecodeError is caught in the loop; any other exception but
\* CancelledError leaves learn().
learn_pass(line, healthy, current_advertise_networks, allow) ==
    IF ~HasKey(line, "json")
    THEN IF line.text = "done" THEN {Continue("done")}
         ELSE {Continue("invalid_json")}
    ELSE LET bgp_json == line.json
         IN  IF ~HasIn(bgp_json) THEN {Ends("TypeError")}
             ELSE IF ~NeighborIn(bgp_json) THEN {Continue("no_neighbor")}
             ELSE IF ~HasKey(bgp_json, "object") THEN {Ends("TypeError")}
             ELSE {after_parse(parsed, current_advertise_networks, allow) :
                      parsed \in parse(bgp_json.object, healthy)}

\* The JSON objects the speaker sends (ExaBGP's JSON API, encoder 4.0.1)
StateMessage(peer, state) ==
    [exabgp |-> "4.0.1", type |-> "state",
     neighbor |-> [address |-> [peer |-> peer], state |-> state]]

DownMessage(peer, state) ==
    [exabgp |-> "4.0.1", type |-> "state",
     neighbor |-> [address |-> [peer |-> peer], state |-> state,
                   reason |-> "peer reset"]]

UpdateMessage(peer, direction, update) ==
    [exabgp |-> "4.0.1", type |-> "update",
     neighbor |-> [address |-> [peer |-> peer], direction |-> direction,
                   message |-> [update |-> update]]]

Nlri(text) == [nlri |-> text]

Attribute == [operation |-> "attribute", prefixes |-> <<>>]

Announce(family, next_hop, nlris) ==
    [operation |-> "announce",
     prefixes |-> <<[family |-> family,
                     peers |-> <<[next_hop |-> next_hop, prefixes |-> nlris]>>]>>]

Withdraw(family, nlris) ==
    [operation |-> "withdraw",
     prefixes |-> <<[family |-> family, peers |-> nlris]>>]

StateMessages ==
    {StateMessage("fc00::1", "up"), StateMessage("FC00:0::1", "Up"),
     StateMessage("fc00::1", "connected"), StateMessage("fc00::1", "idle"),
     StateMessage("peer-1", "up"),
     StateMessage("fc00::1", "down"),                   \* no reason
     DownMessage("fc00::1", "down"), DownMessage("fc00::2", "DOWN"),
     DownMessage("peer-1", "down"),
     [exabgp |-> "4.0.1", type |-> "state",             \* no state
      neighbor |-> [address |-> [peer |-> "fc00::1"]]],
     [exabgp |-> "4.0.1", type |-> "STATE",             \* no address
      neighbor |-> [state |-> "up"]]}

UpdateMessages ==
    {UpdateMessage("fc00::1", "receive",
        <<Attribute, Announce("ipv6 unicast", "fc00::1", <<Nlri("4000::/2")>>)>>),
     UpdateMessage("fc00::1", "receive",
        <<Announce("ipv6 unicast", "fc00::2",
                   <<Nlri("c000::/2"), Nlri("8000::/3"), Nlri("4000::/2")>>)>>),
     UpdateMessage("fc00::1", "receive",
        <<Announce("ipv6 unicast", "fc00::1", <<Nlri("8000:0::/2")>>)>>),
     UpdateMessage("fc00::1", "receive",
        <<Announce("ipv6 unicast", "fc00::1", <<Nlri("8000::/1")>>)>>),
     UpdateMessage("fc00::1", "receive",
        <<Announce("ipv6 unicast", "fc00::1", <<Nlri("::/0")>>)>>),
     UpdateMessage("fc00::1", "receive",
        <<Announce("ipv6 unicast", "fc00::1", <<Nlri("4000::/2")>>),
          Announce("ipv4 unicast", "10.0.0.1",
                   <<Nlri("64.0.0.0/2"), Nlri("128.0.0.0/1")>>)>>),
     UpdateMessage("fc00::1", "receive",
        <<Withdraw("ipv6 unicast", <<Nlri("4000::/2")>>)>>),
     UpdateMessage("fc00::2", "receive",
        <<Announce("ipv6 unicast", "fc00::1", <<Nlri("c000::/2")>>),
          Withdraw("ipv6 unicast", <<Nlri("4000::/2")>>),
          Withdraw("ipv4 unicast", <<Nlri("64.0.0.0/2")>>)>>),
     UpdateMessage("fc00::1", "receive",
        <<Announce("ipv6 unicast", "fc00::1", <<Nlri("4000::/2")>>),
          Withdraw("ipv6 unicast", <<Nlri("4000::/2")>>)>>),
     UpdateMessage("fc00::1", "receive",
        <<Announce("ipv6 unicast", "fc00::1",
                   <<Nlri("4000::/2"), Nlri("8000::1/2")>>)>>),
     UpdateMessage("fc00::1", "receive",
        <<Announce("ipv6 unicast", "fc00::1", <<[prefix |-> "4000::/2"]>>)>>),
     UpdateMessage("fc00::1", "receive",
        <<Announce("ipv6 flow", "fc00::1", <<Nlri("4000::/2")>>)>>),
     UpdateMessage("fc00::1", "send",
        <<Announce("ipv6 unicast", "fc00::1", <<Nlri("4000::/2")>>)>>),
     [exabgp |-> "4.0.1", type |-> "update",            \* no direction
      neighbor |-> [address |-> [peer |-> "fc00::1"],
                    message |-> [update |-> <<>>]]],
     [exabgp |-> "4.0.1", type |-> "Update",            \* no message
      neighbor |-> [address |-> [peer |-> "fc00::1"], direction |-> "receive"]]}

OtherObjects ==
    {[exabgp |-> "4.0.1", type |-> "notification",
      neighbor |-> [address |-> [peer |-> "fc00::1"]]],
     [exabgp |-> "4.0.2", type |-> "state",
      neighbor |-> [address |-> [peer |-> "fc00::1"], state |-> "up"]],
     [exabgp |-> "4.0.2", type |-> "state",
      neighbor |-> [address |-> [peer |-> "fc00::1"], state |-> "down",
                    reason |-> "peer reset"]],
     [exabgp |-> "3.4.8", type |-> "update",
      neighbor |-> [address |-> [peer |-> "fc00::1"], direction |-> "receive",
                    message |-> [update |->
                        <<Withdraw("ipv6 unicast", <<Nlri("4000::/2")>>)>>]]],
     [exabgp |-> "4.0.2", type |-> "notification",
      neighbor |-> [address |-> [peer |-> "fc00::1"]]],
     [type |-> "state",
      neighbor |-> [address |-> [peer |-> "fc00::1"], state |-> "up"]],
     [exabgp |-> "4.0.1",
      neighbor |-> [address |-> [peer |-> "fc00::1"], state |-> "up"]],
     [exabgp |-> "4.0.1", type |-> "notification", notification |-> "shutdown"]}

\* readline() at the end of the speaker's output: "", which strip() leaves
\* as it is. The line is told from an empty line by its mark.
Eof == [text |-> "", eof |-> TRUE]

\* The lines nonblock_read can return, stripped: a text that is no JSON
\* document ("" for an empty line, and at end of file), or a JSON document
\* as what json.loads makes of it.
SpeakerLines ==
    {[text |-> "done"], [text |-> ""], [text |-> "{'exabgp': "], Eof}
    \cup {[json |-> [object |-> o]] :
             o \in StateMessages \cup UpdateMessages \cup OtherObjects}
    \cup {[json |-> [array |-> <<"exabgp">>]], [json |-> [array |-> <<"neighbor">>]],
          [json |-> [number |-> 5]], [json |-> [null |-> TRUE]]}

NoLine == [text |-> "nothing read"]

\* config["advertise"]["prefixes"] for the Learner: none, a v6 summary, a v6
\* and a v4 summary, the v6 default route
LearnAdvertised ==
    {<<>>,
     <<[prefix |-> Net(6, <<1, 0>>), checks |-> 0]>>,
     <<[prefix |-> DEFAULT_v6_route, checks |-> 0]>>,
     <<[prefix |-> Net(6, <<1, 0>>), checks |-> 0],
       [prefix |-> Net(4, <<1>>), checks |-> 0]>>}

\* advertise_prefixes.keys()
Keys(prefixes) == {prefixes[i].prefix : i \in 1..Len(prefixes)}

LearnIdle ==
    /\ allow_default = FALSE
    /\ learn_pc = "not_started"
    /\ bgp_msg = NoLine
    /\ learn_outcome = "none"
    /\ learn_exc = "none"
    /\ msgs_read = 0

\* Announcer.__init__ and learn() up to its first read; the Advertiser has
\* set healthy_prefixes to some of the advertised prefixes.
LearnInit ==
    /\ allow_default \in BOOLEAN
    /\ learn_pc = "read"
    /\ bgp_msg = NoLine
    /\ learn_outcome = "none"
    /\ learn_exc = "none"
    /\ msgs_read = 0

AdvBesideLearn ==
    /\ advertise_prefixes \in LearnAdvertised
    /\ healthy_prefixes \in SUBSET Keys(advertise_prefixes)
    /\ adv_pc = "sleep"
    /\ cycles = 1
    /\ healthcheck_results = <<>>
    /\ advertise_routes = <<>>
    /\ withdraw_routes = <<>>
    /\ adv_i = 1
    /\ success = 0
    /\ print_results = <<>>
    /\ print_lock = "free"
    /\ writes = <<>>
    /\ stdout_lines = <<>>

\* One pass of learn()'s loop: a line is read, decoded, parsed and filtered,
\* and its intents are put on the queue; or learn() ends with an exception.
LearnMessage ==
    /\ learn_pc = "read"
    /\ msgs_read < MaxMsgs
    /\ msgs_read' = msgs_read + 1
    /\ \E line \in (IF bgp_msg = Eof THEN {Eof} ELSE SpeakerLines) :
         \E pass \in learn_pass(line, healthy_prefixes, Keys(advertise_prefixes),
                                allow_default) :
            /\ bgp_msg' = line
            /\ learn_outcome' = pass.outcome
            /\ learn_exc' = pass.exc
            /\ learn_pc' = IF pass.outcome = "raised" THEN "failed" ELSE "read"
            /\ learn_queue' = IF pass.outcome = "put"
                              THEN Append(learn_queue, pass.put) ELSE learn_queue
    /\ UNCHANGED <<allow_default, fib_names, dry_run, cons_pc, cons_ops, cons_idx,
                   cons_results, cons_before, advVars, notLearn>>

\* CancelledError at an await of learn(): the consumer task is cancelled and
\* the error is raised on.
LearnCancelled ==
    /\ learn_pc = "read"
    /\ learn_pc' = "cancelled"
    /\ cons_pc' = "cancelled"
    /\ UNCHANGED <<allow_default, bgp_msg, learn_outcome, learn_exc, msgs_read,
                   learn_queue, fib_names, dry_run, cons_ops, cons_idx,
                   cons_results, cons_before, advVars, notLearn>>

NextLearn ==
    \/ LearnMessage
    \/ LearnCancelled

---------------------------------------------------------------------------
(* Direct calls of ExaBGPParser.parse and Announcer.remove_internal_networks *)

MaxIntents == 2

\* The objects parse is called with
ParseObjects == StateMessages \cup UpdateMessages \cup OtherObjects

\* The sets parse is given as advertise_prefixes: Announcer.healthy_prefixes
ParseHealthy == SUBSET {Net(6, <<1, 0>>), Net(4, <<1>>)}

\* A call not made yet, with its arguments
NotCalled(exa_json, advertise_set) ==
    [called |-> FALSE, exa_json |-> exa_json, advertise_set |-> advertise_set,
     result |-> Return(<<>>)]

NoParseCall == NotCalled([exabgp |-> SUPPORTED_API_VERSION], {})

\* The intents remove_internal_networks is called with: Adds and Removes of
\* networks inside, around and outside the advertised ones, and the defaults
FilterNetworks ==
    {ip_network("4000::/2"), ip_network("8000::/3"), ip_network("8000::/1"),
     ip_network("8000::/2"), ip_network("::/0"), ip_network("0.0.0.0/0"),
     ip_network("64.0.0.0/2"), ip_network("128.0.0.0/1")}

FilterIntents ==
    {FibPrefix(n, ip_address("fc00::1"), op) :
        n \in FilterNetworks, op \in {"ADD_ROUTE", "REMOVE_ROUTE"}}
    \cup {FibPrefix(ip_network("4000::/2"), nh, "ADD_ROUTE") :
             nh \in {ip_address("fc00::2"), ip_address("10.0.0.1"), NoneAddr}}

NotFiltered(bgp_prefixes, networks, allow) ==
    [called |-> FALSE, bgp_prefixes |-> bgp_prefixes, networks |-> networks,
     allow |-> allow, result |-> Return(<<>>)]

NoFilterCall == NotFiltered(<<>>, {}, FALSE)

CallIdle ==
    /\ parse_call = NoParseCall
    /\ rin_call = NoFilterCall

\* The arguments of a parse call
ParseCallInit ==
    /\ parse_call \in {NotCalled(exa_json, advertise_set) :
                          exa_json \in ParseObjects, advertise_set \in ParseHealthy}
    /\ rin_call = NoFilterCall

\* await ejp.parse(exa_json, advertise_prefixes)
CallParse ==
    /\ ~parse_call.called
    /\ \E result \in parse(parse_call.exa_json, parse_call.advertise_set) :
          parse_call' = [parse_call EXCEPT !.called = TRUE, !.result = result]
    /\ UNCHANGED <<rin_call, notCall>>

NextParse == CallParse

\* The arguments of a remove_internal_networks call and the Announcer's
\* configuration
FilterCallInit ==
    /\ rin_call \in {NotFiltered(bgp_prefixes, Keys(prefixes), allow) :
                        bgp_prefixes \in SeqsUpTo(FilterIntents, MaxIntents),
                        prefixes \in LearnAdvertised, allow \in BOOLEAN}
    /\ parse_call = NoParseCall

\* self.remove_internal_networks(bgp_prefixes); an empty list is returned
\* as it is.
CallRemoveInternalNetworks ==
    /\ ~rin_call.called
    /\ rin_call' = [rin_call EXCEPT
                       !.called = TRUE,
                       !.result = IF rin_call.bgp_prefixes = <<>>
                                  THEN Return(rin_call.bgp_prefixes)
                                  ELSE remove_internal_networks(
                                           rin_call.bgp_prefixes,
                                           rin_call.networks, rin_call.allow)]
    /\ UNCHANGED <<parse_call, notCall>>

NextFilter == CallRemoveInternalNetworks

---------------------------------------------------------------------------
(* fibs.py: Fib and LinuxFib, on Linux *)

MaxRoutes == 2

METRIC == 31337
IP_CMD == "/sbin/ip"
SUDO_CMD == "/usr/bin/sudo"

\* Fib.DEFAULTS
DEFAULTS == {DEFAULT_v4_route, DEFAULT_v6_route}

\* Fib.LINKLOCALS: 169.254.0.0/16 and fe80::/10, each as the addresses of the
\* model that lie in it (169.254.0.1 and fe80::1).
LINKLOCALS == [v \in {4, 6} |-> {Addr(v, 254)}]

\* Fib.__init__: what it keeps of config["learn"]
FibConfig(default_allowed, allow_ll_nexthop, use_sudo) ==
    [default_allowed |-> default_allowed, allow_ll_nexthop |-> allow_ll_nexthop,
     use_sudo |-> use_sudo]

\* Fib.is_default
is_default(prefix) == prefix \in DEFAULTS

\* Fib.is_link_local, of an address
is_link_local(address) == address \in LINKLOCALS[address.version]

\* Fib.add_route always letting the route through
fib_add_route_allows_all(self, prefix, next_hop) == TRUE

\* Fib.add_route: the checks every FIB shares
fib_add_route(self, prefix, next_hop) ==
    IF ~self.default_allowed /\ is_default(prefix) THEN FALSE
    ELSE IF TruthyAddr(next_hop) /\ ~self.allow_ll_nexthop /\ is_link_local(next_hop)
         THEN FALSE
    ELSE TRUE

\* str(prefix) of the networks of the model
str_network(prefix) ==
    CASE prefix = DEFAULT_v6_route -> "::/0"
      [] prefix = DEFAULT_v4_route -> "0.0.0.0/0"
      [] prefix = Net(6, <<1>>) -> "8000::/1"
      [] prefix = Net(6, <<0, 1>>) -> "4000::/2"
      [] prefix = Net(4, <<1>>) -> "128.0.0.0/1"

\* str(next_hop), next_hop.compressed of the addresses of the model
str_address(address) ==
    CASE address = Addr(6, 1) -> "fc00::1"
      [] address = Addr(6, 2) -> "fc00::2"
      [] address = Addr(6, 17) -> "fc00::11"
      [] address = Addr(6, 254) -> "fe80::1"
      [] address = Addr(4, 1) -> "10.0.0.1"
      [] address = Addr(4, 254) -> "169.254.0.1"

\* f"-{prefix.version}"
DashVersion(version) == IF version = 4 THEN "-4" ELSE "-6"

\* str(self.METRIC), and the metric `ip route show` prints
str_metric(metric) == IF metric = 31337 THEN "31337" ELSE "100"

\* gen_route_command writing inet6 before every IPv6 next-hop
gen_route_command_inet6_for_v6(self, op, prefix, next_hop) ==
    (IF self.use_sudo THEN <<SUDO_CMD>> ELSE <<>>)
    \o <<IP_CMD, DashVersion(prefix.version), "route", op,
         IF is_default(prefix) THEN "default" ELSE str_network(prefix), "via">>
    \o (IF next_hop.version = 6 THEN <<"inet6">> ELSE <<>>)
    \o <<str_address(next_hop), "metric", str_metric(METRIC)>>

\* LinuxFib.gen_route_command
gen_route_command(self, op, prefix, next_hop) ==
    (IF self.use_sudo THEN <<SUDO_CMD>> ELSE <<>>)
    \o <<IP_CMD, DashVersion(prefix.version), "route", op,
         IF is_default(prefix) THEN "default" ELSE str_network(prefix), "via">>
    \o (IF prefix.version = 4 /\ next_hop.version = 6 THEN <<"inet6">> ELSE <<>>)
    \o <<str_address(next_hop), "metric", str_metric(METRIC)>>

\* A route of the kernel's table
Route(prefix, next_hop, metric) ==
    [prefix |-> prefix, next_hop |-> next_hop, metric |-> metric]

\* How a route command can go: ip runs and the kernel decides its exit
\* status, sudo or ip fails before the kernel is asked, wait_for times out.
RouteCmdEnds == {"ran", "refused", "timeout"}

\* `ip route add` / `ip route delete` of one route, as the subprocess
\* run_cmd waits for: how it ended and the table afterwards. The kernel adds
\* a route it does not hold and deletes one it holds, and exits 2 otherwise.
ip_route(table, op, route, how) ==
    CASE how = "timeout" -> [end |-> [kind |-> "timeout", status |-> 0], table |-> table]
      [] how = "refused" -> [end |-> [kind |-> "exit", status |-> 1], table |-> table]
      [] OTHER ->
            IF op = "add"
            THEN IF route \in table
                 THEN [end |-> [kind |-> "exit", status |-> 2], table |-> table]
                 ELSE [end |-> [kind |-> "exit", status |-> 0],
                       table |-> table \cup {route}]
            ELSE IF route \in table
                 THEN [end |-> [kind |-> "exit", status |-> 0],
                       table |-> table \ {route}]
                 ELSE [end |-> [kind |-> "exit", status |-> 2], table |-> table]

\* What a LinuxFib method did: what it returned or raised, the commands it
\* ran and how each ended, and the kernel's table afterwards.
FibResult(ret, raised, cmds, ends, table) ==
    [ret |-> ret, raised |-> raised, cmds |-> cmds, ends |-> ends, table |-> table]

\* The command of add_route / del_route: run_cmd and `cp.returncode == 0`
route_cmd(self, table, op, prefix, next_hop, how) ==
    LET cmd == gen_route_command(self, op, prefix, next_hop)
        k == ip_route(table, op, Route(prefix, next_hop, METRIC), how)
        cp == run_cmd(cmd, k.end)
    IN  FibResult(cp.returncode = 0, "none", <<cmd>>, <<k.end>>, k.table)

\* LinuxFib.add_route
linux_add_route(self, table, prefix, next_hop, how) ==
    IF ~fib_add_route(self, prefix, next_hop)
    THEN FibResult(FALSE, "none", <<>>, <<>>, table)
    ELSE route_cmd(self, table, "add", prefix, next_hop, how)

\* LinuxFib.del_route
linux_del_route(self, table, prefix, next_hop, how) ==
    route_cmd(self, table, "delete", prefix, next_hop, how)

\* A line of `ip -4 route show` / `ip -6 route show`:
\* "<dest> via [inet6 ]<via> dev eth0 metric <metric>"
RouteLine(route) ==
    [dest |-> IF is_default(route.prefix) THEN "default" ELSE str_network(route.prefix),
     inet6 |-> route.prefix.version = 4 /\ route.next_hop.version = 6,
     via |-> str_address(route.next_hop),
     metric |-> str_metric(route.metric)]

\* re.search(pattern, text) for an address text as the pattern: the texts of
\* the model the pattern is found in.
TextsWith ==
    "fc00::1" :> {"fc00::1", "fc00::11"} @@ "fc00::2" :> {"fc00::2"}
    @@ "fc00::11" :> {"fc00::11"} @@ "fe80::1" :> {"fe80::1"}
    @@ "10.0.0.1" :> {"10.0.0.1"} @@ "169.254.0.1" :> {"169.254.0.1"}

\* del_all_routes: re.match(route_regex, route) and its groups, None as
\* [matched |-> FALSE]
route_match(next_hop, line) ==
    IF TruthyAddr(next_hop)
    THEN [matched |-> /\ line.via \in TextsWith[str_address(next_hop)]
                      /\ line.metric = str_metric(METRIC),
          group1 |-> line.dest, group2 |-> ""]
    ELSE [matched |-> line.metric = str_metric(METRIC),
          group1 |-> line.dest, group2 |-> line.via]

\* del_all_routes: the loop over the lines of one table; st is the result so
\* far and hows says how each del_route command goes.
RECURSIVE del_all_loop(_, _, _, _, _)
del_all_loop(self, next_hop, lines, hows, st) ==
    IF lines = <<>> \/ st.raised # "none" THEN st
    ELSE LET m == route_match(next_hop, Head(lines))
         IN  IF ~m.matched
             THEN del_all_loop(self, next_hop, Tail(lines), hows, st)
             ELSE IF ~ValidNetwork(m.group1)
             THEN [st EXCEPT !.raised = "ValueError"]
             ELSE LET prefix_network == ip_network(m.group1)
                      del_next_hop == IF TruthyAddr(next_hop) THEN next_hop
                                      ELSE ip_address(m.group2)
                      d == linux_del_route(self, st.table, prefix_network,
                                           del_next_hop, hows[Len(st.cmds) + 1])
                  IN  del_all_loop(self, next_hop, Tail(lines), hows,
                          [st EXCEPT !.ret = st.ret \/ d.ret,
                                     !.cmds = st.cmds \o d.cmds,
                                     !.ends = st.ends \o d.ends,
                                     !.table = d.table])

\* get_route_table: the lines of one IP version, in an order of the kernel's
route_tables(table, version) ==
    { [i \in 1..Cardinality(DOMAIN o) |-> RouteLine(o[i])] :
        o \in Orderings({r \in table : r.prefix.version = version}) }

\* LinuxFib.del_all_routes: the IPv4 table, then the IPv6 table; the set of
\* its possible results
linux_del_all_routes(self, table, next_hop, hows) ==
    { del_all_loop(self, next_hop, l4 \o l6, hows,
                   FibResult(FALSE, "none", <<>>, <<>>, table)) :
        l4 \in route_tables(table, 4), l6 \in route_tables(table, 6) }

\* The (prefix, next-hop) pairs LinuxFib is called with: every combination
\* of IP versions, default and not; link-local next-hops; and a next-hop
\* whose text holds the text of another.
FibPairs ==
    { <<p, nh>> : p \in {DEFAULT_v4_route, DEFAULT_v6_route, Net(4, <<1>>), Net(6, <<1>>)},
                  nh \in {Addr(4, 1), Addr(6, 1)} }
    \cup { <<Net(6, <<1>>), Addr(6, 254)>>, <<DEFAULT_v6_route, Addr(6, 254)>>,
           <<Net(4, <<1>>), Addr(4, 254)>>, <<Net(6, <<1>>), Addr(6, 17)>> }

FibNextHops == {pr[2] : pr \in FibPairs}

\* A route of another origin, by its metric
ForeignRoute == Route(Net(6, <<0, 1>>), Addr(6, 1), 100)

\* The routes the kernel can hold when a method is called
KernelRoutes == {Route(pr[1], pr[2], METRIC) : pr \in FibPairs} \cup {ForeignRoute}

NoFibCall ==
    [method |-> "none", prefix |-> DEFAULT_v6_route, next_hop |-> NoneAddr,
     before |-> {}, result |-> FibResult(FALSE, "none", <<>>, <<>>, {})]

FibCall(method, prefix, next_hop, before, result) ==
    [method |-> method, prefix |-> prefix, next_hop |-> next_hop,
     before |-> before, result |-> result]

FibIdle ==
    /\ fib_config = FibConfig(TRUE, FALSE, TRUE)
    /\ route_table = {}
    /\ fib_call = NoFibCall

\* LinuxFib(config), in a kernel that holds up to MaxRoutes routes
FibInit ==
    /\ fib_config \in {FibConfig(d, l, s) : d \in BOOLEAN, l \in BOOLEAN, s \in BOOLEAN}
    /\ route_table \in {t \in SUBSET KernelRoutes : Cardinality(t) <= MaxRoutes}
    /\ fib_call = NoFibCall

CallAddRoute ==
    /\ fib_call.method = "none"
    /\ \E pr \in FibPairs, how \in RouteCmdEnds :
          LET r == linux_add_route(fib_config, route_table, pr[1], pr[2], how)
          IN  /\ fib_call' = FibCall("add_route", pr[1], pr[2], route_table, r)
              /\ route_table' = r.table
    /\ UNCHANGED <<fib_config, notFib>>

CallDelRoute ==
    /\ fib_call.method = "none"
    /\ \E pr \in FibPairs, how \in RouteCmdEnds :
          LET r == linux_del_route(fib_config, route_table, pr[1], pr[2], how)
          IN  /\ fib_call' = FibCall("del_route", pr[1], pr[2], route_table, r)
              /\ route_table' = r.table
    /\ UNCHANGED <<fib_config, notFib>>

CallDelAllRoutes ==
    /\ fib_call.method = "none"
    /\ \E next_hop \in FibNextHops \cup {NoneAddr},
          hows \in [1..MaxRoutes -> {"ran", "refused"}] :
          \E r \in linux_del_all_routes(fib_config, route_table, next_hop, hows) :
              /\ fib_call' = FibCall("del_all_routes", DEFAULT_v6_route, next_hop,
                                     route_table, r)
              /\ route_table' = r.table
    /\ UNCHANGED <<fib_config, notFib>>

NextFib == CallAddRoute \/ CallDelRoute \/ CallDelAllRoutes

---------------------------------------------------------------------------
(* announcer/__init__.py: coordinator at the end of its gather, withdraw_all_routes *)

ExitPrefixes == {Net(4, <<0>>), Net(4, <<1>>), Net(6, <<0>>), Net(6, <<1>>)}

\* The dicts advertise_prefixes can be: any of the prefixes, in any order
ExitConfigs ==
    UNION { { [i \in 1..Cardinality(S) |-> [prefix |-> o[i], checks |-> 1]] :
                o \in Orderings(S) } : S \in SUBSET ExitPrefixes }

\* a < b for two networks: TypeError between two IP versions
networks_compare(a, b) == a.version = b.version

\* sorted(S) of a set of networks that all compare
RECURSIVE sorted_networks(_)
sorted_networks(S) ==
    IF S = {} THEN <<>>
    ELSE LET least == CHOOSE x \in S : \A y \in S \ {x} : NetworkLess(x, y)
         IN  <<least>> \o sorted_networks(S \ {least})

\* sorted(S) raises TypeError on a pair that does not compare
sorted_networks_raises(S) == \E x \in S, y \in S : ~networks_compare(x, y)

ExitIdle ==
    /\ withdraw_on_exit = FALSE
    /\ coord_pc = "not_started"
    /\ exit_routes = <<>>
    /\ exit_i = 0
    /\ exit_lines = <<>>
    /\ coord_exc = "none"

\* coordinator() awaiting the gather of advertise() and learn()
ExitInit ==
    /\ withdraw_on_exit \in BOOLEAN
    /\ coord_pc = "gather"
    /\ exit_routes = <<>>
    /\ exit_i = 0
    /\ exit_lines = <<>>
    /\ coord_exc = "none"

\* The print() threads of announce lines still running when the coordinator
\* is cancelled: none, or one whose nonblock_print timed out or was
\* cancelled at its wait_for (the thread is not stopped with its future)
InFlightAtExit(prefixes) ==
    {<<>>} \cup {<<[line |-> Line("announce", prefix), awaited |-> FALSE]>> :
                    prefix \in Keys(prefixes)}

\* The advertiser beside it: cancelled with the gather, nothing awaited
AdvBesideExit ==
    /\ advertise_prefixes \in ExitConfigs
    /\ adv_pc = "sleep"
    /\ cycles = 1
    /\ healthcheck_results = <<>>
    /\ advertise_routes = <<>>
    /\ withdraw_routes = <<>>
    /\ adv_i = 0
    /\ success = 0
    /\ print_results = <<>>
    /\ healthy_prefixes = {}
    /\ print_lock = "free"
    /\ writes \in InFlightAtExit(advertise_prefixes)
    /\ stdout_lines = <<>>

\* `except asyncio.CancelledError:` up to the first line of withdraw_routes,
\* or to the end when there is none to print
CoordinatorCancelled ==
    /\ coord_pc = "gather"
    /\ IF ~withdraw_on_exit
       THEN /\ coord_pc' = "cancelled"
            /\ coord_exc' = "CancelledError"
            /\ UNCHANGED <<exit_routes, exit_i>>
       ELSE IF sorted_networks_raises(Keys(advertise_prefixes))
       THEN /\ coord_pc' = "failed"
            /\ coord_exc' = "TypeError"
            /\ UNCHANGED <<exit_routes, exit_i>>
       ELSE LET all_prefixes == sorted_networks(Keys(advertise_prefixes))
            IN  /\ exit_routes' = all_prefixes
                /\ IF all_prefixes = <<>>
                   THEN /\ coord_pc' = "cancelled"
                        /\ coord_exc' = "CancelledError"
                        /\ exit_i' = 0
                   ELSE /\ coord_pc' = "withdraw"
                        /\ coord_exc' = "none"
                        /\ exit_i' = 1
    /\ UNCHANGED <<withdraw_on_exit, exit_lines>>
    /\ UNCHANGED <<mirrorVars, consVars, pingVars, advVars, learnVars, callVars, fibVars>>

\* withdraw_routes: one pass of its loop, nonblock_print returning
\* print_success; after the last, _cleanup_executor() and `raise`
ExitPrint(print_success) ==
    /\ coord_pc = "withdraw"
    /\ exit_lines' = Append(exit_lines,
                            [line |-> Line("withdraw", exit_routes[exit_i]),
                             print_success |-> print_success])
    /\ exit_i' = exit_i + 1
    /\ IF exit_i = Len(exit_routes)
       THEN coord_pc' = "cancelled" /\ coord_exc' = "CancelledError"
       ELSE UNCHANGED <<coord_pc, coord_exc>>
    /\ IF print_success
       THEN /\ stdout_lines' = Append(stdout_lines, Line("withdraw", exit_routes[exit_i]))
            /\ UNCHANGED writes
       ELSE /\ writes' = Append(writes, [line |-> Line("withdraw", exit_routes[exit_i]),
                                         awaited |-> FALSE])
            /\ UNCHANGED stdout_lines
    /\ UNCHANGED <<withdraw_on_exit, exit_routes>>
    /\ UNCHANGED <<advertise_prefixes, adv_pc, cycles, healthcheck_results,
                   advertise_routes, withdraw_routes, adv_i, success, print_results,
                   healthy_prefixes, print_lock>>
    /\ UNCHANGED <<mirrorVars, consVars, pingVars, learnVars, callVars, fibVars>>

ExitPrintSucceeds == ExitPrint(TRUE)

ExitPrintTimesOut == ExitPrint(FALSE)

\* What advertise() or learn() can end with: a raising check(), a message
\* of another API version, a state message without its keys
ChildErrors == {"NotImplementedError", "ValueError", "KeyError"}

\* `await asyncio.gather(*route_coros)` raises what a child raised: no
\* handler of coordinator() matches, the exception leaves it as it is.
GatherRaises ==
    /\ coord_pc = "gather"
    /\ coord_pc' = "raised"
    /\ \E exc \in ChildErrors : coord_exc' = exc
    /\ UNCHANGED <<withdraw_on_exit, exit_routes, exit_i, exit_lines>>
    /\ UNCHANGED <<mirrorVars, consVars, pingVars, advVars, learnVars, callVars, fibVars>>

NextExit ==
    \/ CoordinatorCancelled
    \/ GatherRaises
    \/ ExitPrintSucceeds
    \/ ExitPrintTimesOut
    \/ AbandonedWriteEnds

---------------------------------------------------------------------------
(* fibs.py: fib_operation_runner over one LinuxFib, batch by batch *)

InstallPrefixes == {Net(6, <<1>>), Net(6, <<0, 1>>)}
InstallPeers == {Addr(6, 1), Addr(6, 2)}

\* The intents the parser makes for two peers: AddRoute and RemoveRoute of a
\* prefix through the peer, RemoveAllRoutes for the peer that went down.
InstallIntents ==
    { FibPrefix(p, nh, op) : p \in InstallPrefixes, nh \in InstallPeers,
                             op \in {"ADD_ROUTE", "REMOVE_ROUTE"} }
    \cup { FibPrefix(DEFAULT_v6_route, nh, "REMOVE_ALL_ROUTES") : nh \in InstallPeers }

\* The route task of an intent on the LinuxFib: the set of its possible results
route_task(self, table, fib_operation, hows) ==
    CASE fib_operation.operation = "ADD_ROUTE" ->
            {linux_add_route(self, table, fib_operation.prefix,
                             fib_operation.next_hop, hows[1])}
      [] fib_operation.operation = "REMOVE_ROUTE" ->
            {linux_del_route(self, table, fib_operation.prefix,
                             fib_operation.next_hop, hows[1])}
      [] OTHER -> linux_del_all_routes(self, table, fib_operation.next_hop, hows)

\* prefix_consumer with an empty kernel table and an empty mirror
InstallInit ==
    /\ fib_config = FibConfig(TRUE, FALSE, TRUE)
    /\ route_table = {}
    /\ fib_call = NoFibCall

\* fib_operation_runner on a batch of one intent, not a dry run: the route
\* task, then _update_learnt_routes when it returned true.
RunBatch ==
    /\ \E fib_operation \in InstallIntents, hows \in [1..MaxRoutes -> RouteCmdEnds] :
          /\ fib_operation.operation = "ADD_ROUTE"
                => Cardinality(route_table) < MaxRoutes
          /\ \E r \in route_task(fib_config, route_table, fib_operation, hows) :
                /\ fib_call' = FibCall(fib_operation.operation, fib_operation.prefix,
                                       fib_operation.next_hop, route_table, r)
                /\ route_table' = r.table
                /\ IF r.raised = "none" /\ r.ret
                   THEN UpdateLearntRoutes(<<fib_operation>>)
                   ELSE UNCHANGED mirrorVars
    /\ UNCHANGED <<fib_config, notInstall>>

NextInstall == RunBatch

---------------------------------------------------------------------------
(* Specifications *)

InitMirror ==
    /\ MirrorInit /\ ConsIdle /\ PingIdle /\ AdvIdle /\ LearnIdle /\ CallIdle
    /\ FibIdle /\ ExitIdle

SpecMirror == InitMirror /\ [][NextMirror]_vars

SpecApply == InitMirror /\ [][NextApply]_vars

InitConsumer ==
    /\ MirrorInit /\ ConsInit /\ PingIdle /\ AdvIdle /\ LearnIdle /\ CallIdle
    /\ FibIdle /\ ExitIdle

SpecConsumer == InitConsumer /\ [][NextConsumer]_vars

SpecQueue == InitConsumer /\ [][NextQueue]_vars

\* The event loop runs every task that is ready, so a consumer step that
\* stays possible is taken; a FIB coroutine ends (run_cmd returns at the
\* command's exit or at its timeout), so a batch under way goes on.
SpecQueueFair ==
    /\ InitConsumer
    /\ [][NextQueue]_vars
    /\ WF_vars(ConsumerStart)
    /\ WF_vars(ConsumerGet)
    /\ WF_vars(RunIntent)

InitPing ==
    /\ MirrorInit /\ ConsIdle /\ PingInit /\ AdvIdle /\ LearnIdle /\ CallIdle
    /\ FibIdle /\ ExitIdle

SpecPing == InitPing /\ [][NextPing]_vars

InitAdvertise ==
    /\ MirrorInit /\ ConsIdle /\ PingIdle /\ AdvInit /\ LearnIdle /\ CallIdle
    /\ FibIdle /\ ExitIdle

SpecAdvertise == InitAdvertise /\ [][NextAdvertise]_vars

InitLearn ==
    /\ MirrorInit /\ ConsIdle /\ PingIdle /\ AdvBesideLearn /\ LearnInit /\ CallIdle
    /\ FibIdle /\ ExitIdle

SpecLearn == InitLearn /\ [][NextLearn]_vars

InitParse ==
    /\ MirrorInit /\ ConsIdle /\ PingIdle /\ AdvIdle /\ LearnIdle /\ ParseCallInit
    /\ FibIdle /\ ExitIdle

SpecParse == InitParse /\ [][NextParse]_vars

InitFilter ==
    /\ MirrorInit /\ ConsIdle /\ PingIdle /\ AdvIdle /\ LearnIdle /\ FilterCallInit
    /\ FibIdle /\ ExitIdle

SpecFilter == InitFilter /\ [][NextFilter]_vars

InitFib ==
    /\ MirrorInit /\ ConsIdle /\ PingIdle /\ AdvIdle /\ LearnIdle /\ CallIdle
    /\ FibInit /\ ExitIdle

SpecFib == InitFib /\ [][NextFib]_vars

InitInstall ==
    /\ MirrorInit /\ ConsIdle /\ PingIdle /\ AdvIdle /\ LearnIdle /\ CallIdle
    /\ InstallInit /\ ExitIdle

SpecInstall == InitInstall /\ [][NextInstall]_vars

InitExit ==
    /\ MirrorInit /\ ConsIdle /\ PingIdle /\ AdvBesideExit /\ LearnIdle /\ CallIdle
    /\ FibIdle /\ ExitInit

SpecExit == InitExit /\ [][NextExit]_vars

---------------------------------------------------------------------------
(* Claims on the mirror *)

LastOp == ulr_call.ops[Len(ulr_call.ops)]

\* C5: starting from the empty mirror, after any sequence of AddRoute and
\* RemoveRoute intents with a next-hop, the mirror holds exactly the
\* (prefix, next-hop) pairs added and not removed since, and no key with an
\* empty next-hop set.
C5_MirrorIsAddsMinusRemoves ==
    plain_history =>
        /\ \A p \in MirrorPrefixes, nh \in MirrorNextHops :
              (p \in DOMAIN BGP_LEARNT_PREFIXES /\ nh \in BGP_LEARNT_PREFIXES[p])
                  <=> (<<p, nh>> \in net_routes)
        /\ \A p \in DOMAIN BGP_LEARNT_PREFIXES : BGP_LEARNT_PREFIXES[p] # {}

\* A removal that dropped a key while another route stayed.
C5_Witness ==
    /\ plain_history
    /\ ulr_call.ops # <<>>
    /\ LastOp.operation = "REMOVE_ROUTE"
    /\ DOMAIN BGP_LEARNT_PREFIXES # DOMAIN ulr_call.before
    /\ net_routes # {}

\* C6: no key of the mirror maps to an empty next-hop set, whatever intents
\* were applied (AddRoute with a null next-hop included).
C6_NoEmptyNextHopSet ==
    \A p \in DOMAIN BGP_LEARNT_PREFIXES : BGP_LEARNT_PREFIXES[p] # {}

\* C7: a RemoveAllRoutes intent leaves the mirror empty whatever its prefix
\* and next-hop are, and a call with that one intent reports as deletes the
\* number of prefixes the mirror held before.
C7_RemoveAllEmptiesMirror ==
    (ulr_call.ops # <<>> /\ LastOp.operation = "REMOVE_ALL_ROUTES") =>
        /\ BGP_LEARNT_PREFIXES = EmptyMirror
        /\ Len(ulr_call.ops) = 1 =>
              /\ ulr_call.dels = Cardinality(DOMAIN ulr_call.before)
              /\ ulr_call.adds = 0

\* RemoveAllRoutes with a null next-hop and a non-default prefix, applied to a
\* mirror of two prefixes, one of them with two next-hops.
C7_Witness ==
    /\ ulr_call.ops = <<FibPrefix(Net(6, <<1>>), NoneAddr, "REMOVE_ALL_ROUTES")>>
    /\ Cardinality(DOMAIN ulr_call.before) = 2
    /\ \E p \in DOMAIN ulr_call.before : Cardinality(ulr_call.before[p]) = 2
    /\ BGP_LEARNT_PREFIXES = EmptyMirror

\* C8: a call with one AddRoute or RemoveRoute intent whose next-hop is null,
\* or with one RemoveRoute for a prefix absent from the mirror, leaves the
\* mirror as it was and counts neither an add nor a delete.
C8_NullOrAbsentIsSkipped ==
    (/\ Len(ulr_call.ops) = 1
     /\ \/ /\ LastOp.operation \in {"ADD_ROUTE", "REMOVE_ROUTE"}
           /\ LastOp.next_hop = NoneAddr
        \/ /\ LastOp.operation = "REMOVE_ROUTE"
           /\ LastOp.prefix \notin DOMAIN ulr_call.before)
    => /\ BGP_LEARNT_PREFIXES = ulr_call.before
       /\ ulr_call.adds = 0
       /\ ulr_call.dels = 0

---------------------------------------------------------------------------
(* Claims on the FIB consumer *)

BatchDone == cons_pc = "get" /\ cons_results # <<>>

SomeIntentFailed ==
    \E i \in 1..Len(cons_results) : cons_results[i] \in {"false", "raise"}

\* C4: when the batch taken from the queue has been worked through and the
\* FIB operation of any of its intents failed, the mirror is what it was
\* before the batch; the mirror changes only when the FIB operations of every
\* intent succeeded.
C4_MirrorUnchangedOnPartialFailure ==
    (BatchDone /\ SomeIntentFailed) => BGP_LEARNT_PREFIXES = cons_before

---------------------------------------------------------------------------
(* Claims on the ping health check *)

\* C2: check() returns true iff the ping subprocess exited with status 0:
\* false on a non-zero exit, on run_cmd's timeout (returncode -1) and on an
\* exception raised while pinging.
C2_CheckTrueIffExitZero ==
    ping_pc = "done" =>
        (ping_result <=> (ping_end.kind = "exit" /\ ping_end.status = 0))

---------------------------------------------------------------------------
(* Claims on the advertise cycle *)

\* The cycle's prefixes have been sorted into the two lists.
Sorted == adv_pc \in {"add", "add_wait", "withdraw", "withdraw_wait", "sleep"}

\* The results of the checkers of prefix number i: check() was gathered
\* prefix by prefix, checker by checker.
OwnResults(i) ==
    LET before == NumChecks(SubSeq(advertise_prefixes, 1, i - 1))
    IN  SubSeq(healthcheck_results, before + 1, before + advertise_prefixes[i].checks)

\* C1: in every advertise cycle a prefix is on the advertise list iff every
\* one of its own checkers returned true, and on the withdraw list otherwise.
C1_OwnCheckersDecide ==
    Sorted =>
        \A i \in 1..Len(advertise_prefixes) :
            LET prefix == advertise_prefixes[i].prefix
            IN  /\ prefix \in SetOf(advertise_routes) <=> All(OwnResults(i))
                /\ prefix \in SetOf(withdraw_routes) <=> ~All(OwnResults(i))

\* C3: at the end of every advertise cycle the healthy prefixes are the
\* cycle's advertise set if every line of the cycle was written, and the empty
\* set if any was not.
C3_HealthyAtCycleEnd ==
    adv_pc = "sleep" =>
        healthy_prefixes = IF All(print_results) THEN SetOf(advertise_routes) ELSE {}

\* C9: at no time are two writes to the speaker in progress.
C9_OneWriteAtATime == Len(writes) <= 1

---------------------------------------------------------------------------
(* Claims on the learner *)

\* The line is one the speaker should not have sent: no JSON, a JSON value
\* without "neighbor", a state message without state, without reason or
\* with a peer that is no address, an update without direction.
Malformed(line) ==
    IF ~HasKey(line, "json") THEN line.text # "done"
    ELSE IF ~HasKey(line.json, "object") THEN ~HasIn(line.json) \/ ~NeighborIn(line.json)
    ELSE LET exa_json == line.json.object
         IN  \/ ~HasKey(exa_json, "neighbor")
             \/ /\ HasKey(exa_json, "exabgp") /\ exa_json.exabgp = SUPPORTED_API_VERSION
                /\ HasKey(exa_json, "type") /\ lower(exa_json.type) = "state"
                /\ \/ ~HasKey(exa_json.neighbor, "state")
                   \/ /\ lower(exa_json.neighbor.state) = "down"
                      /\ ~HasKey(exa_json.neighbor, "reason")
                   \/ /\ HasKey(exa_json.neighbor, "address")
                      /\ HasKey(exa_json.neighbor.address, "peer")
                      /\ ~ValidAddress(exa_json.neighbor.address.peer)
             \/ /\ HasKey(exa_json, "exabgp") /\ exa_json.exabgp = SUPPORTED_API_VERSION
                /\ HasKey(exa_json, "type") /\ lower(exa_json.type) = "update"
                /\ ~HasKey(exa_json.neighbor, "direction")

\* C10: a malformed line from the speaker is dropped and the Learner reads
\* on; learn() never ends because of it.
C10_MalformedIsDropped ==
    (msgs_read > 0 /\ Malformed(bgp_msg)) =>
        /\ learn_pc # "failed"
        /\ learn_outcome \notin {"raised", "put"}

---------------------------------------------------------------------------
(* Claims on the parser *)

\* The message of the last parse call, and what the call gave
Msg == parse_call.exa_json
Parsed == parse_call.result

\* The spellings of the message's words that parse takes for the word
StateTypes == {"state", "STATE"}
UpdateTypes == {"update", "Update"}
DownStates == {"down", "DOWN"}
UpStates == {"up", "Up"}
WantedFamilies == {"ipv4 unicast", "ipv6 unicast"}

Versioned(j) == HasKey(j, "exabgp") /\ j.exabgp = "4.0.1" /\ HasKey(j, "type")

\* j is an update message with a direction / a received update message
UpdateWithDirection(j) ==
    /\ Versioned(j) /\ j.type \in UpdateTypes
    /\ HasKey(j, "neighbor") /\ HasKey(j.neighbor, "direction")

ReceivedUpdate(j) == UpdateWithDirection(j) /\ j.neighbor.direction = "receive"

\* the update has its body and its peer
HasBody(j) ==
    /\ HasKey(j.neighbor, "message") /\ HasKey(j.neighbor.message, "update")
    /\ HasKey(j.neighbor, "address") /\ HasKey(j.neighbor.address, "peer")

\* The places of the NLRIs under the wanted families of the announces of an
\* update u: <<operation, family, next-hop, NLRI>> by position
AnnounceSlots(u) ==
    UNION {UNION {UNION {{<<i, k, p, n>> :
                            n \in 1..Len(u[i].prefixes[k].peers[p].prefixes)} :
                         p \in 1..Len(u[i].prefixes[k].peers)} :
                  k \in {k \in 1..Len(u[i].prefixes) :
                            u[i].prefixes[k].family \in WantedFamilies}} :
           i \in {i \in 1..Len(u) : u[i].operation = "announce"}}

AnnouncedNlri(u, s) == u[s[1]].prefixes[s[2]].peers[s[3]].prefixes[s[4]]
AnnouncedHop(u, s) == u[s[1]].prefixes[s[2]].peers[s[3]].next_hop

\* Likewise for the withdraws: <<operation, family, NLRI>>
WithdrawSlots(u) ==
    UNION {UNION {{<<i, k, n>> : n \in 1..Len(u[i].prefixes[k].peers)} :
                  k \in {k \in 1..Len(u[i].prefixes) :
                            u[i].prefixes[k].family \in WantedFamilies}} :
           i \in {i \in 1..Len(u) : u[i].operation = "withdraw"}}

WithdrawnNlri(u, s) == u[s[1]].prefixes[s[2]].peers[s[3]]

GoodNlri(d) == HasKey(d, "nlri") /\ ValidNetwork(d.nlri)

\* Translating the update meets a missing key or a text that is no network
\* or no address.
ErrorInUpdate(j) ==
    \/ ~HasBody(j)
    \/ LET u == j.neighbor.message.update
       IN  \/ \E s \in AnnounceSlots(u) :
                ~GoodNlri(AnnouncedNlri(u, s)) \/ ~ValidAddress(AnnouncedHop(u, s))
           \/ \E s \in WithdrawSlots(u) :
                ~GoodNlri(WithdrawnNlri(u, s))
                \/ ~ValidAddress(j.neighbor.address.peer)

\* C11: when a KeyError or ValueError occurs while a received update is
\* parsed, also after some of its NLRIs were translated, parse_update returns
\* the empty list.
C11_ErrorInUpdateGivesEmptyList ==
    (parse_call.called /\ ReceivedUpdate(Msg) /\ ErrorInUpdate(Msg))
        => Parsed = Return(<<>>)

\* j is a received update that translates without an error
WellFormedUpdate(j) == ReceivedUpdate(j) /\ ~ErrorInUpdate(j)

\* The positions in a list of intents of those of one operation
Positions(ops, operation) == {r \in 1..Len(ops) : ops[r].operation = operation}

\* C15: parse of a received update returns exactly one AddRoute(prefix,
\* next-hop) for every NLRI under every next-hop of every wanted family of
\* its announces, the next-hop being the key the NLRI is listed under, and
\* no other AddRoute: none for the families not wanted nor for "attribute".
C15_OneAddPerAnnouncedNlri ==
    (parse_call.called /\ WellFormedUpdate(Msg)) =>
        LET u == Msg.neighbor.message.update
        IN  /\ Parsed.raised = "none"
            /\ Cardinality(Positions(Parsed.ops, "ADD_ROUTE"))
                  = Cardinality(AnnounceSlots(u))
            /\ {Parsed.ops[r] : r \in Positions(Parsed.ops, "ADD_ROUTE")}
                  = {FibPrefix(NetworkOf[AnnouncedNlri(u, s).nlri],
                               AddressOf[AnnouncedHop(u, s)], "ADD_ROUTE") :
                        s \in AnnounceSlots(u)}
            /\ \A r \in 1..Len(Parsed.ops) :
                  Parsed.ops[r].operation \in {"ADD_ROUTE", "REMOVE_ROUTE"}

\* An update with announces of both wanted families, three NLRIs in all,
\* parsed.
C15_Witness ==
    /\ parse_call.called /\ WellFormedUpdate(Msg)
    /\ Cardinality(AnnounceSlots(Msg.neighbor.message.update)) = 3
    /\ \E r \in 1..Len(Parsed.ops) : Parsed.ops[r].prefix.version = 4
    /\ \E r \in 1..Len(Parsed.ops) : Parsed.ops[r].prefix.version = 6

\* C16: parse of a received update returns exactly one RemoveRoute(prefix,
\* peer) for every NLRI under a wanted family of its withdraws, and no
\* other RemoveRoute; the next-hop is the address of the peer that sent the
\* message.
C16_OneRemovePerWithdrawnNlri ==
    (parse_call.called /\ WellFormedUpdate(Msg)) =>
        LET u == Msg.neighbor.message.update
        IN  /\ Parsed.raised = "none"
            /\ Cardinality(Positions(Parsed.ops, "REMOVE_ROUTE"))
                  = Cardinality(WithdrawSlots(u))
            /\ {Parsed.ops[r] : r \in Positions(Parsed.ops, "REMOVE_ROUTE")}
                  = {FibPrefix(NetworkOf[WithdrawnNlri(u, s).nlri],
                               AddressOf[Msg.neighbor.address.peer], "REMOVE_ROUTE") :
                        s \in WithdrawSlots(u)}

\* An update with withdraws of both wanted families, from a peer that is
\* not the next-hop of the update's announce, parsed.
C16_Witness ==
    /\ parse_call.called /\ WellFormedUpdate(Msg)
    /\ Cardinality(WithdrawSlots(Msg.neighbor.message.update)) = 2
    /\ Cardinality(Positions(Parsed.ops, "REMOVE_ROUTE")) = 2
    /\ \E r \in Positions(Parsed.ops, "ADD_ROUTE") :
          Parsed.ops[r].next_hop # AddressOf[Msg.neighbor.address.peer]

\* j is a state message that names its peer and its state
StateMessageOf(j) ==
    /\ Versioned(j) /\ j.type \in StateTypes
    /\ HasKey(j, "neighbor") /\ HasKey(j.neighbor, "state")
    /\ HasKey(j.neighbor, "address") /\ HasKey(j.neighbor.address, "peer")

\* j tells that the session to a peer, named by its address, went down / came up
DownMessageOf(j) ==
    /\ StateMessageOf(j) /\ j.neighbor.state \in DownStates
    /\ HasKey(j.neighbor, "reason") /\ ValidAddress(j.neighbor.address.peer)

UpMessageOf(j) ==
    /\ StateMessageOf(j) /\ j.neighbor.state \in UpStates
    /\ ValidAddress(j.neighbor.address.peer)

\* C13: parse of a "down" state message for peer P returns exactly one
\* intent, RemoveAllRoutes of ::/0 with next-hop P, whatever set of healthy
\* prefixes it is given.
C13_DownGivesOneRemoveAll ==
    (parse_call.called /\ DownMessageOf(Msg)) =>
        Parsed = Return(<<FibPrefix(DEFAULT_v6_route,
                                    AddressOf[Msg.neighbor.address.peer],
                                    "REMOVE_ALL_ROUTES")>>)

\* A "DOWN" parsed with two healthy prefixes.
C13_Witness ==
    /\ parse_call.called /\ DownMessageOf(Msg)
    /\ Msg.neighbor.state = "DOWN"
    /\ Cardinality(parse_call.advertise_set) = 2
    /\ Len(Parsed.ops) = 1

\* C14: parse of an "up" state message for peer P returns exactly one
\* AddRoute(prefix, P) for each member of the set of healthy prefixes it is
\* given and nothing else; none for the empty set.
C14_UpGivesOneAddPerHealthyPrefix ==
    (parse_call.called /\ UpMessageOf(Msg)) =>
        /\ Parsed.raised = "none"
        /\ Len(Parsed.ops) = Cardinality(parse_call.advertise_set)
        /\ SetOf(Parsed.ops) =
              {FibPrefix(prefix, AddressOf[Msg.neighbor.address.peer], "ADD_ROUTE") :
                  prefix \in parse_call.advertise_set}

\* An "up" parsed with two healthy prefixes.
C14_Witness ==
    /\ parse_call.called /\ UpMessageOf(Msg)
    /\ Cardinality(parse_call.advertise_set) = 2
    /\ Len(Parsed.ops) = 2

\* j carries no route change: an update not received, a state message of
\* a state that is neither up nor down, a message of another type.
NoRouteChange(j) ==
    \/ UpdateWithDirection(j) /\ j.neighbor.direction # "receive"
    \/ StateMessageOf(j) /\ j.neighbor.state \notin UpStates \cup DownStates
    \/ Versioned(j) /\ j.type \notin StateTypes \cup UpdateTypes

\* C17: parse returns the empty list for a message that carries no route
\* change.
C17_NoRouteChangeGivesEmptyList ==
    (parse_call.called /\ NoRouteChange(Msg)) => Parsed = Return(<<>>)

\* A sent update that announces a route, parsed.
C17_Witness ==
    /\ parse_call.called
    /\ UpdateWithDirection(Msg) /\ Msg.neighbor.direction = "send"
    /\ HasBody(Msg) /\ AnnounceSlots(Msg.neighbor.message.update) # {}
    /\ Parsed = Return(<<>>)

---------------------------------------------------------------------------
(* Claims on the filter of internal networks *)

\* What the last remove_internal_networks call gave
Filtered == rin_call.result

\* The intent is one to keep: a default route while defaults are allowed, or
\* a prefix that overlaps no advertised prefix of its IP version.
ToKeep(aprefix) ==
    \/ rin_call.allow /\ aprefix.prefix \in {DEFAULT_v4_route, DEFAULT_v6_route}
    \/ ~\E network \in rin_call.networks :
           /\ network.version = aprefix.prefix.version
           /\ overlaps(network, aprefix.prefix)

\* C18: remove_internal_networks returns the intents of its input that are
\* to keep, every one of them and no other intent.
C18_KeepsExternalAndAllowedDefault ==
    rin_call.called =>
        /\ Filtered.raised = "none"
        /\ SetOf(Filtered.ops) = {aprefix \in SetOf(rin_call.bgp_prefixes) :
                                     ToKeep(aprefix)}

\* C19: remove_internal_networks returns the kept IPv4 intents in
\* ascending order of prefix, then the kept IPv6 intents in ascending order
\* of prefix, whatever the order of its input.
C19_Ipv4ThenIpv6Ascending ==
    (rin_call.called /\ rin_call.bgp_prefixes # <<>>) =>
        /\ Filtered.raised = "none"
        /\ \A i \in 1..Len(Filtered.ops), j \in 1..Len(Filtered.ops) :
              i < j =>
                 /\ Filtered.ops[i].prefix.version <= Filtered.ops[j].prefix.version
                 /\ Filtered.ops[i].prefix.version = Filtered.ops[j].prefix.version
                       => ~NetworkLess(Filtered.ops[j].prefix, Filtered.ops[i].prefix)

---------------------------------------------------------------------------
(* Claims on the learner's use of the parser *)

\* The Learner has read a JSON object with a "neighbor": it called parse.
ParsedByLearner ==
    /\ msgs_read > 0
    /\ HasKey(bgp_msg, "json") /\ HasKey(bgp_msg.json, "object")
    /\ HasKey(bgp_msg.json.object, "neighbor")

\* C12: parse of a message whose "exabgp" is not "4.0.1" raises an error
\* whatever the type of the message, gives no intents, and the error ends
\* learn(): nothing is put on the queue for the message.
C12_VersionMismatchPropagates ==
    (/\ ParsedByLearner
     /\ HasKey(bgp_msg.json.object, "exabgp")
     /\ bgp_msg.json.object.exabgp # "4.0.1")
    => /\ parse(bgp_msg.json.object, healthy_prefixes) = {Raise("ValueError")}
       /\ learn_pc = "failed"
       /\ learn_exc = "ValueError"
       /\ learn_outcome = "raised"

\* An update of another API version, well-formed otherwise, ended learn()
\* after an earlier message had been put on the queue.
C12_Witness ==
    /\ ParsedByLearner
    /\ HasKey(bgp_msg.json.object, "exabgp") /\ bgp_msg.json.object.exabgp = "3.4.8"
    /\ HasKey(bgp_msg.json.object, "type") /\ bgp_msg.json.object.type = "update"
    /\ learn_pc = "failed"
    /\ Len(learn_queue) = 1

\* C20: the batch of a peer-down message, one RemoveAllRoutes, is put on
\* the queue as parse returned it, whatever prefixes are advertised and
\* whether defaults are allowed or not: the filter of internal networks is
\* not applied to it.
C20_RemoveAllBatchIsNotFiltered ==
    (ParsedByLearner /\ DownMessageOf(bgp_msg.json.object)) =>
        /\ learn_outcome = "put"
        /\ learn_queue # <<>>
        /\ learn_queue[Len(learn_queue)] =
              <<FibPrefix(DEFAULT_v6_route,
                          AddressOf[bgp_msg.json.object.neighbor.address.peer],
                          "REMOVE_ALL_ROUTES")>>

\* A peer-down message was read while an IPv6 prefix, which ::/0 overlaps,
\* is advertised and defaults are not allowed.
C20_Witness ==
    /\ ParsedByLearner /\ DownMessageOf(bgp_msg.json.object)
    /\ \E network \in Keys(advertise_prefixes) : network.version = 6
    /\ ~allow_default
    /\ learn_outcome = "put"
    /\ learn_pc = "read"

---------------------------------------------------------------------------
(* Claims on LinuxFib *)

\* C21: add_route returns false and runs no backend command when the prefix
\* is a default route and allow_default is false, or when the next-hop is
\* link-local and allow_ll_nexthop is false; otherwise it runs the add
\* command and returns true iff that command exited 0 within the timeout.
C21_AddRouteChecksThenRunsCommand ==
    fib_call.method = "add_route" =>
        LET r == fib_call.result
            refused ==
                \/ /\ ~fib_config.default_allowed
                   /\ fib_call.prefix \in {DEFAULT_v4_route, DEFAULT_v6_route}
                \/ /\ ~fib_config.allow_ll_nexthop
                   /\ fib_call.next_hop \in {Addr(4, 254), Addr(6, 254)}
        IN  IF refused
            THEN r.ret = FALSE /\ r.cmds = <<>> /\ route_table = fib_call.before
            ELSE /\ Len(r.cmds) = 1
                 /\ "add" \in SetOf(r.cmds[1])
                 /\ r.raised = "none"
                 /\ r.ret = (r.ends[1] = [kind |-> "exit", status |-> 0])

\* A link-local next-hop refused for a prefix that is no default route.
C21_Witness ==
    /\ fib_call.method = "add_route"
    /\ fib_call.next_hop = Addr(6, 254)
    /\ fib_call.prefix = Net(6, <<1>>)
    /\ ~fib_config.allow_ll_nexthop
    /\ fib_call.result.ret = FALSE
    /\ fib_call.result.cmds = <<>>

\* The routes of a table del_all_routes(next_hop) is to delete: those of
\* the agent's metric, through next_hop when one is given.
OwnRoutes(table, next_hop) ==
    {r \in table : /\ r.metric = 31337
                   /\ (next_hop = NoneAddr \/ r.next_hop = next_hop)}

\* The route a command of del_route names, read back from its tokens
DeletedBy(cmd) ==
    LET dest == cmd[Len(cmd) - 4 - (IF cmd[Len(cmd) - 3] = "inet6" THEN 1 ELSE 0)]
        version == IF "-4" \in SetOf(cmd) THEN 4 ELSE 6
    IN  <<IF dest = "default"
          THEN (IF version = 4 THEN DEFAULT_v4_route ELSE DEFAULT_v6_route)
          ELSE NetworkOf[dest],
          AddressOf[cmd[Len(cmd) - 2]]>>

\* C22: del_all_routes(next_hop) invokes del_route exactly once for every
\* route of the IPv4 and IPv6 tables that carries metric 31337 and, if a
\* next-hop is given, that next-hop (the routes installed as 'default'
\* included) and for no other route, and returns true iff at least one
\* deletion succeeded.
C22_DelAllDeletesOwnRoutes ==
    fib_call.method = "del_all_routes" =>
        LET r == fib_call.result
            own == OwnRoutes(fib_call.before, fib_call.next_hop)
        IN  /\ r.raised = "none"
            /\ Len(r.cmds) = Cardinality(own)
            /\ {DeletedBy(r.cmds[i]) : i \in 1..Len(r.cmds)}
                  = {<<o.prefix, o.next_hop>> : o \in own}
            /\ r.ret = (\E i \in 1..Len(r.ends) :
                            r.ends[i] = [kind |-> "exit", status |-> 0])

\* The tokens after the optional sudo, for a call of add_route or del_route
ExpectedTokens(op, prefix, next_hop) ==
    LET version == IF prefix.version = 4 THEN "-4" ELSE "-6"
        dest == CASE prefix = Net(4, <<>>) -> "default"
                  [] prefix = Net(6, <<>>) -> "default"
                  [] prefix = Net(4, <<1>>) -> "128.0.0.0/1"
                  [] prefix = Net(6, <<1>>) -> "8000::/1"
        hop == CASE next_hop = Addr(4, 1) -> "10.0.0.1"
                 [] next_hop = Addr(4, 254) -> "169.254.0.1"
                 [] next_hop = Addr(6, 1) -> "fc00::1"
                 [] next_hop = Addr(6, 17) -> "fc00::11"
                 [] next_hop = Addr(6, 254) -> "fe80::1"
    IN  IF prefix.version = 4 /\ next_hop.version = 6
        THEN <<"/sbin/ip", version, "route", op, dest, "via", "inet6", hop,
               "metric", "31337">>
        ELSE <<"/sbin/ip", version, "route", op, dest, "via", hop,
               "metric", "31337">>

\* C26: for every combination of operation (add / delete), prefix version,
\* next-hop version, default or not, and use_sudo, gen_route_command returns,
\* token for token, [sudo] ip -<prefix version> route <op> <'default' or the
\* prefix> via ['inet6' only for an IPv4 prefix with an IPv6 next-hop]
\* <next-hop> metric 31337.
C26_RouteCommandTokens ==
    (fib_call.method \in {"add_route", "del_route"} /\ fib_call.result.cmds # <<>>) =>
        LET cmd == fib_call.result.cmds[1]
            op == IF fib_call.method = "add_route" THEN "add" ELSE "delete"
            tokens == ExpectedTokens(op, fib_call.prefix, fib_call.next_hop)
        IN  cmd = IF fib_config.use_sudo THEN <<"/usr/bin/sudo">> \o tokens ELSE tokens

\* A delete of the IPv4 default route through an IPv6 next-hop, under sudo.
C26_Witness ==
    /\ fib_call.method = "del_route"
    /\ fib_call.prefix = Net(4, <<>>)
    /\ fib_call.next_hop = Addr(6, 1)
    /\ fib_config.use_sudo
    /\ fib_call.result.cmds =
          << <<"/usr/bin/sudo", "/sbin/ip", "-4", "route", "delete", "default", "via",
               "inet6", "fc00::1", "metric", "31337">> >>

---------------------------------------------------------------------------
(* Claims on the mirror and the FIB *)

\* The (prefix, next-hop) pairs of the mirror
MirrorRoutes ==
    {pr \in (InstallPrefixes \cup {DEFAULT_v6_route}) \X InstallPeers :
        pr[1] \in DOMAIN BGP_LEARNT_PREFIXES /\ pr[2] \in BGP_LEARNT_PREFIXES[pr[1]]}

\* The (prefix, next-hop) pairs of the routes of metric 31337 in the kernel
InstalledRoutes == {<<r.prefix, r.next_hop>> : r \in {x \in route_table : x.metric = 31337}}

\* C30: after any sequence of batches applied by the FIB consumer, for any
\* number of peers, the mirror equals the set of (prefix, next-hop) routes
\* currently installed in the FIB: a route still installed through peer B
\* is still in the mirror after peer A goes down.
C30_MirrorEqualsInstalledRoutes == MirrorRoutes = InstalledRoutes

---------------------------------------------------------------------------
(* Claims on the coordinator *)

\* coordinator() has ended
CoordinatorEnded == coord_pc \in {"cancelled", "failed"}

\* C23: when the Coordinator is cancelled and advertise.withdraw_on_exit is
\* true, one withdraw line is attempted for every configured advertise
\* prefix, in sorted prefix order, before the cancellation propagates; when
\* the flag is false no withdraw line is emitted.
C23_WithdrawAllOnExit ==
    CoordinatorEnded =>
        IF withdraw_on_exit
        THEN /\ coord_exc = "CancelledError"
             /\ Len(exit_lines) = Len(advertise_prefixes)
             /\ {exit_lines[i].line.prefix : i \in 1..Len(exit_lines)}
                   = {advertise_prefixes[i].prefix : i \in 1..Len(advertise_prefixes)}
             /\ \A i \in 1..Len(exit_lines) : exit_lines[i].line.cmd = "withdraw"
             /\ \A i \in 1..Len(exit_lines), j \in 1..Len(exit_lines) :
                   (i < j /\ exit_lines[i].line.prefix.version
                                = exit_lines[j].line.prefix.version)
                       => NetworkLess(exit_lines[i].line.prefix, exit_lines[j].line.prefix)
        ELSE exit_lines = <<>> /\ coord_exc = "CancelledError"

---------------------------------------------------------------------------
(* Claims on add_routes and withdraw_routes *)

\* The results of the lines of the add phase / of the withdraw phase so far
AddResults == SubSeq(print_results, 1,
                     IF Len(print_results) < Len(advertise_routes)
                     THEN Len(print_results) ELSE Len(advertise_routes))
WithdrawResults == SubSeq(print_results, Len(advertise_routes) + 1, Len(print_results))

\* The number of lines written among some results
Written(results) == Cardinality({k \in 1..Len(results) : results[k]})

\* The writes add_routes / withdraw_routes is waiting for
AwaitedLines == {writes[k].line : k \in {j \in 1..Len(writes) : writes[j].awaited}}

\* C27: add_routes and withdraw_routes attempt exactly one line per given
\* prefix, in the order given; a write that times out is a failure that
\* neither stops the remaining attempts nor ends the Advertiser; the count
\* returned is the number of lines written.
C27_OneAttemptPerPrefixAndCount ==
    /\ adv_pc \in {"add", "add_wait"} =>
          /\ Len(print_results) = adv_i - 1
          /\ adv_i <= Len(advertise_routes)
          /\ success = Written(AddResults)
    /\ adv_pc = "add_wait" =>
          AwaitedLines = {[cmd |-> "announce", prefix |-> advertise_routes[adv_i],
                           next_hop |-> "self"]}
    /\ adv_pc \in {"withdraw", "withdraw_wait"} =>
          /\ Len(print_results) = Len(advertise_routes) + adv_i - 1
          /\ adv_i <= Len(withdraw_routes)
          /\ success = Written(WithdrawResults)
    /\ adv_pc = "withdraw_wait" =>
          AwaitedLines = {[cmd |-> "withdraw", prefix |-> withdraw_routes[adv_i],
                           next_hop |-> "self"]}
    /\ adv_pc = "sleep" =>
          Len(print_results) = Len(advertise_routes) + Len(withdraw_routes)
    /\ (adv_pc \in {"withdraw", "withdraw_wait", "sleep"} /\ advertise_routes # <<>>) =>
          healthy_prefixes = IF Written(AddResults) = 0 THEN {}
                             ELSE {advertise_routes[k] : k \in 1..Len(advertise_routes)}

\* The first of two announce lines timed out and the second was written.
C27_Witness ==
    /\ adv_pc = "sleep"
    /\ Len(advertise_routes) = 2
    /\ print_results = <<FALSE, TRUE>>
    /\ healthy_prefixes # {}

---------------------------------------------------------------------------
(* Claims on the advertise cycle *)

\* The announce lines of the cycle so far, in the order add_routes printed
\* or began to print them
AnnouncedSoFar ==
    SubSeq(advertise_routes, 1,
           IF adv_pc = "add" THEN adv_i - 1
           ELSE IF adv_pc = "add_wait" THEN adv_i
           ELSE IF adv_pc \in {"withdraw", "withdraw_wait", "sleep"}
                THEN Len(advertise_routes) ELSE 0)

\* C28: within one advertise cycle the announce lines are emitted in sorted
\* prefix order, whatever the order of the configuration.
C28_AnnounceInSortedOrder ==
    \A i \in 1..Len(AnnouncedSoFar), j \in 1..Len(AnnouncedSoFar) :
        i < j => NetworkLess(AnnouncedSoFar[i], AnnouncedSoFar[j])

\* C29: the Advertiser waits for every health checker before aggregating; a
\* checker that fails by raising neither cancels the other checkers nor
\* aborts the cycle nor ends the Advertiser loop.
C29_RaisingCheckerDoesNotEndAdvertiser == adv_pc # "failed"

---------------------------------------------------------------------------
(* Claims on the Learner and its consumer *)

\* C24: an unknown FIB name in learn.fibs is fatal: the error reaches the
\* Coordinator, and the Learner never goes on reading and enqueueing
\* intents while no FIB consumer is running. As a property of every step:
\* once prefix_consumer has ended with the error of get_fib, no batch is
\* put on the queue.
C24_NoPutOnceConsumerFailed ==
    [][cons_pc = "failed" => learn_queue' = learn_queue]_vars

\* C25: on EOF of the speaker's output stream reading a line fails with
\* ChannelClosed: the Learner does not treat EOF as a message and does not
\* keep reading the closed stream for ever.
C25_EofEndsTheLearner ==
    bgp_msg = Eof =>
        /\ learn_outcome = "raised"
        /\ learn_exc = "ChannelClosed"
        /\ learn_pc # "read"

---------------------------------------------------------------------------
(* Claims on the consumer loop *)

LastResult == cons_results[Len(cons_results)]

\* C31: a runtime failure while a batch is applied (a FIB operation that
\* raises) never ends the FIB consumer: the consumer goes back to the queue
\* for the next batch; only cancellation ends the consumer loop.
C31_FailureDoesNotEndConsumer ==
    /\ (cons_results # <<>> /\ LastResult = "raise") => cons_pc \in {"get", "cancelled"}
    /\ cons_pc = "failed" => (cons_results = <<>> /\ cons_ops = <<>>)

\* A FIB operation raised and the consumer waits at the queue, where the
\* next batch already is.
C31_Witness ==
    /\ cons_results # <<>>
    /\ LastResult = "raise"
    /\ cons_pc = "get"
    /\ learn_queue # <<>>

\* C33: with dry_run set, for any sequence of batches no FIB operation
\* (add_route, del_route, del_all_routes) is ever executed and the mirror
\* never changes.
C33_DryRunExecutesNothing ==
    dry_run =>
        /\ \A i \in 1..Len(cons_results) : cons_results[i] \in {"skipped", "dry_run"}
        /\ BGP_LEARNT_PREFIXES = EmptyMirror
        /\ ulr_call.ops = <<>>

\* A batch of two intents worked through in a dry run.
C33_Witness ==
    /\ dry_run
    /\ cons_results = <<"dry_run", "dry_run">>
    /\ cons_pc = "get"

\* C32: batches are applied in exactly the order in which the Learner
\* enqueued them, by a single consumer: the queue only grows at its tail,
\* the consumer only takes its head, and it takes a batch only when it is
\* back at the queue, with every FIB operation of the batch before finished
\* (each intent has its result, or one raised and dropped the rest).
C32_BatchesInQueueOrder ==
    [][ /\ learn_queue' # learn_queue =>
             \/ \E ops \in BacklogBatches : learn_queue' = Append(learn_queue, ops)
             \/ /\ learn_queue # <<>>
                /\ learn_queue' = Tail(learn_queue)
                /\ cons_ops' = Head(learn_queue)
                /\ cons_pc = "get" /\ cons_pc' = "run"
        /\ cons_ops' # cons_ops =>
             /\ learn_queue # <<>>
             /\ cons_ops' = Head(learn_queue)
             /\ learn_queue' = Tail(learn_queue)
             /\ cons_pc = "get"
             /\ \/ cons_ops = <<>>
                \/ Len(cons_results) = Len(cons_ops)
                \/ LastResult = "raise"
        /\ (cons_results' # cons_results /\ cons_results' # <<>>) =>
             /\ cons_pc = "run"
             /\ cons_ops' = cons_ops
             /\ cons_idx = Len(cons_results) + 1
             /\ cons_results' \in {Append(cons_results, r) :
                    r \in {"skipped", "dry_run", "true", "false", "raise"}}
      ]_vars

\* Two different batches wait while a two-intent batch is half applied.
C32_Witness ==
    /\ cons_pc = "run"
    /\ Len(cons_ops) = 2
    /\ Len(cons_results) = 1
    /\ Len(learn_queue) = 2
    /\ learn_queue[1] # learn_queue[2]

---------------------------------------------------------------------------
(* Claims on the end of the Learner *)

\* C34: whenever the Learner stops, by cancellation or by an error that
\* propagates out of it, the FIB consumer task it created is cancelled too.
C34_ConsumerEndsWithLearner ==
    learn_pc \in {"failed", "cancelled"} => cons_pc = "cancelled"

\* An intent the internal-network filter is to hold back: an Add or Remove
\* whose prefix overlaps an advertise prefix of its IP version, unless it
\* is a default route while allow_default is true.
IsInternal(intent) ==
    /\ intent.operation \in {"ADD_ROUTE", "REMOVE_ROUTE"}
    /\ ~(allow_default /\ intent.prefix \in {DEFAULT_v4_route, DEFAULT_v6_route})
    /\ \E advertise_network \in Keys(advertise_prefixes) :
          /\ advertise_network.version = intent.prefix.version
          /\ LET n == IF Len(advertise_network.bits) < Len(intent.prefix.bits)
                      THEN Len(advertise_network.bits) ELSE Len(intent.prefix.bits)
             IN  SubSeq(advertise_network.bits, 1, n) = SubSeq(intent.prefix.bits, 1, n)

IsPeerUp(line) ==
    /\ HasKey(line, "json") /\ HasKey(line.json, "object")
    /\ line.json.object \in StateMessages
    /\ HasKey(line.json.object.neighbor, "state")
    /\ line.json.object.neighbor.state \in {"up", "Up"}

\* C36: no Add or Remove intent whose prefix overlaps a same-version
\* advertise prefix (other than a default route with allow_default true) is
\* ever on the learn queue; in particular what a peer-up message makes of
\* the healthy prefixes is put on the queue only where it is such a default.
C36_NoInternalIntentQueued ==
    /\ \A i \in 1..Len(learn_queue) : \A j \in 1..Len(learn_queue[i]) :
          ~IsInternal(learn_queue[i][j])
    /\ (IsPeerUp(bgp_msg) /\ learn_outcome = "put") =>
          /\ allow_default
          /\ \A j \in 1..Len(learn_queue[Len(learn_queue)]) :
                learn_queue[Len(learn_queue)][j].prefix = DEFAULT_v6_route

\* A peer-up message met healthy prefixes after an update with a subnet of
\* the advertised summary had put its two other prefixes only.
C36_Witness ==
    /\ IsPeerUp(bgp_msg)
    /\ healthy_prefixes # {}
    /\ learn_outcome = "no_external_prefix"
    /\ Net(6, <<1, 0>>) \in Keys(advertise_prefixes)
    /\ Len(learn_queue) = 1
    /\ {learn_queue[1][j].prefix : j \in 1..Len(learn_queue[1])}
          = {Net(6, <<1, 1>>), Net(6, <<0, 1>>)}

---------------------------------------------------------------------------
(* Claims on the healthy prefixes *)

\* C35: in every reachable state the healthy prefixes are a subset of the
\* configured advertise prefixes, and the set is empty until the first
\* advertise cycle is through its announces: while the first cycle checks
\* and announces the set is empty, and whenever it is not empty the
\* announce line of one of its prefixes has been written to the speaker.
C35_HealthyWithinConfiguredAndLate ==
    /\ healthy_prefixes \subseteq Keys(advertise_prefixes)
    /\ (cycles = 0 \/ (cycles = 1 /\ adv_pc \in {"add", "add_wait"})) =>
          healthy_prefixes = {}
    /\ healthy_prefixes # {} =>
          \E k \in 1..Len(stdout_lines) : \E prefix \in healthy_prefixes :
              stdout_lines[k] = Line("announce", prefix)

\* The first cycle announced two prefixes and both are healthy now.
C35_Witness ==
    /\ cycles = 1
    /\ adv_pc \in {"withdraw", "sleep"}
    /\ Cardinality(healthy_prefixes) = 2
    /\ healthy_prefixes = SetOf(advertise_routes)

---------------------------------------------------------------------------
(* Claims on the end of the Coordinator *)

\* C37: if advertise.withdraw_on_exit is true the Coordinator never ends,
\* by cancellation or because the Advertiser or the Learner ended with an
\* error, without having attempted a withdraw for every configured
\* advertise prefix.
C37_NoEndWithoutWithdraws ==
    (withdraw_on_exit /\ coord_pc \in {"cancelled", "failed", "raised"}) =>
        \A prefix \in Keys(advertise_prefixes) :
            \E i \in 1..Len(exit_lines) : exit_lines[i].line = Line("withdraw", prefix)

\* C38: once the Coordinator has been cancelled no announce line reaches
\* the speaker after the first withdraw-on-exit line.
C38_NoAnnounceAfterExitWithdraw ==
    \A i \in 1..Len(stdout_lines), j \in 1..Len(stdout_lines) :
        (i < j /\ stdout_lines[i].cmd = "withdraw") => stdout_lines[j].cmd # "announce"

---------------------------------------------------------------------------
(* Claims on batches applied again *)

\* A batch of Add, Remove and RemoveAll intents that all have a next-hop
NonNullBatch(ops) ==
    /\ ops # <<>>
    /\ \A i \in 1..Len(ops) :
          /\ ops[i].operation \in {"ADD_ROUTE", "REMOVE_ROUTE", "REMOVE_ALL_ROUTES"}
          /\ ops[i].next_hop # NoneAddr

\* C39: applying the same batch of intents to the mirror twice in a row
\* leaves the same mirror as applying it once, for every batch of Add,
\* Remove and RemoveAll intents with non-null next-hops: the mirror a call
\* has left is the mirror the same call would leave again.
C39_SameBatchTwiceIsOnce ==
    NonNullBatch(ulr_call.ops) =>
        update_learnt_routes(BGP_LEARNT_PREFIXES, ulr_call.ops).m = BGP_LEARNT_PREFIXES

\* A batch that removes one next-hop of a prefix and adds the other has
\* changed a mirror that held both prefixes.
C39_Witness ==
    /\ ulr_call.ops = <<FibPrefix(Net(6, <<1>>), Addr(6, 1), "REMOVE_ROUTE"),
                        FibPrefix(Net(6, <<1>>), Addr(6, 2), "ADD_ROUTE")>>
    /\ DOMAIN ulr_call.before = {Net(6, <<1>>), Net(6, <<0, 1>>)}
    /\ ulr_call.before[Net(6, <<1>>)] = {Addr(6, 1)}
    /\ BGP_LEARNT_PREFIXES # ulr_call.before

\* C40: under fair scheduling, and given that every backend command ends,
\* every batch the Learner enqueues is eventually dequeued and its FIB
\* operations attempted, for as long as the Learner is not cancelled: a
\* batch waiting in the queue leads to the consumer working on a batch, and
\* a batch being worked on leads to the consumer back at the queue, unless
\* the consumer is cancelled.
C40_EveryBatchIsEventuallyApplied ==
    /\ (learn_queue # <<>> /\ cons_pc # "run") ~> (cons_pc \in {"run", "cancelled"})
    /\ (cons_pc = "run") ~> (cons_pc \in {"get", "cancelled"})

============================================================================
